---------------------------- MODULE Spec2Model ----------------------------
(***************************************************************************)
(* A model of the JSON-config processor of BaseObject                      *)
(* (src/.internal/core/Base.js): the `config` setter, processConfig and    *)
(* its helpers, applied to a small component graph.                        *)
(*                                                                         *)
(* Values are tagged records.  A component (BaseObject instance) is a      *)
(* record carrying its class name, an identity `oid` and its property      *)
(* store; a component owns its children, so the graph is held as a tree.   *)
(* Strings that the code inspects by regular expression are sequences of   *)
(* one-character strings.                                                  *)
(***************************************************************************)
EXTENDS Integers, Sequences, FiniteSets, TLC

VARIABLES
    root,       \* the component the configs are assigned to
    nextUid,    \* the next unused object identity
    pre,        \* root as it was before the latest `config` assignment
    preUid,     \* nextUid as it was before the latest `config` assignment
    lastCfg,    \* the config of the latest assignment (NoCfg before any)
    again,      \* the latest assignment repeated the config of the one before
    raised,     \* critical errors reported during the latest assignment
    trace,      \* <<oid, key>> of every key applied during the latest assignment
    escaped,    \* the exception that reached the assigning code (NoExc if none)
    applies,    \* number of assignments made so far
    call,       \* the latest call of a path function: its arguments and result
    nodes,      \* path nodes currently on the ghost paper
    added,      \* path nodes ever added to the ghost paper
    supported,  \* the host's path nodes can measure lengths
    disposed,   \* _disposed of the object whose timeouts and events are followed
    disposers,  \* its _disposers (Null once disposed)
    timers,     \* the host's timers, by id: pending, fired or cleared
    ran,        \* the timeout callbacks run so far, in order
    delivered,  \* the events handed to the event dispatcher so far, in order
    disposeCalls, \* calls of its dispose() so far, those made by disposers too
    disposeLog, \* the disposers its dispose() has called dispose() on, in order
    flagged,    \* the disposers whose own dispose() has run
    systemMap,  \* system.map: the keys and the object each maps to
    ownUid,     \* its _uid (NoKey until the uid is read)
    ownId       \* its _id (NoKey until the id is set)

configVars ==
    <<root, nextUid, pre, preUid, lastCfg, again, raised, trace, escaped, applies>>

pathVars == <<call, nodes, added, supported>>

registryVars == <<disposeCalls, disposeLog, flagged, systemMap, ownUid, ownId>>

objectVars == <<disposed, disposers, timers, ran, delivered, registryVars>>

vars == <<configVars, pathVars, objectVars>>

----------------------------------------------------------------------------
(* Bounds *)

MaxApplies == 2
MaxEntries == 2
MaxKeys == 3
MaxStrLen == 4

----------------------------------------------------------------------------
(* Values *)

Undef == [k |-> "undef"]
Num(n) == [k |-> "num", n |-> n]
Str(s) == [k |-> "str", s |-> s]
Obj(kv) == [k |-> "obj", kv |-> kv]
Arr(a) == [k |-> "arr", a |-> a]
KV(key, val) == [key |-> key, val |-> val]

NoExc == [k |-> "none"]
NoCfg == [k |-> "nocfg"]

\* $type.isObject: typeof value === "object" && value != null
IsObject(v) == v.k \notin {"undef", "num", "str"}

\* $type.hasValue: value != null
HasValue(v) == v.k # "undef"

\* $type.isArray
IsArray(v) == v.k = "arr"

\* $type.isString
IsString(v) == v.k = "str"

\* value instanceof BaseObject
IsBaseObject(v) == v.k = "comp"

\* The truthiness test `!config` of processConfig.
IsFalsy(v) ==
    \/ v.k = "undef"
    \/ v.k = "num" /\ v.n = 0
    \/ v.k = "str" /\ v.s = <<>>

IndexKeys == <<"0", "1", "2", "3", "4", "5", "6", "7">>

\* The own enumerable keys of a value, in enumeration order ($object.keys).
Keys(v) ==
    CASE v.k = "obj" -> [i \in 1..Len(v.kv) |-> v.kv[i].key]
      [] v.k = "arr" -> [i \in 1..Len(v.a) |-> IndexKeys[i]]
      [] OTHER -> <<>>

HasKey(kv, key) == \E i \in 1..Len(kv) : kv[i].key = key

KeyIndex(kv, key) == CHOOSE i \in 1..Len(kv) : kv[i].key = key

\* kv[key] = val on an insertion-ordered key/value store
PutKey(kv, key, val) ==
    IF HasKey(kv, key)
    THEN [kv EXCEPT ![KeyIndex(kv, key)] = KV(key, val)]
    ELSE Append(kv, KV(key, val))

\* target[key], the read
GetProp(c, key) ==
    CASE c.k = "comp" ->
            IF key \in DOMAIN c.props THEN c.props[key] ELSE Undef
      [] c.k = "obj" ->
            IF HasKey(c.kv, key) THEN c.kv[KeyIndex(c.kv, key)].val ELSE Undef
      [] c.k = "arr" ->
            IF \E i \in 1..Len(c.a) : IndexKeys[i] = key
            THEN c.a[CHOOSE i \in 1..Len(c.a) : IndexKeys[i] = key]
            ELSE Undef
      [] OTHER -> Undef

\* target[key] = val, the write
SetProp(c, key, val) ==
    CASE c.k = "comp" -> [c EXCEPT !.props = (key :> val) @@ @]
      [] c.k = "obj" -> [c EXCEPT !.kv = PutKey(@, key, val)]
      [] OTHER -> c


\* Array index assignment is added to the write: a[i] = val within the array
\* or right after its last element.
SetIndexKey(c, key, val) ==
    IF c.k = "arr" /\ \E i \in 1..(Len(c.a) + 1) : IndexKeys[i] = key
    THEN LET i == CHOOSE j \in 1..(Len(c.a) + 1) : IndexKeys[j] = key
         IN  IF i <= Len(c.a)
             THEN [c EXCEPT !.a[i] = val]
             ELSE [c EXCEPT !.a = Append(@, val)]
    ELSE SetProp(c, key, val)

RECURSIVE CopyKeysFrom(_, _, _, _)
CopyKeysFrom(from, to, keys, i) ==
    IF i > Len(keys)
    THEN to
    ELSE CopyKeysFrom(from, SetIndexKey(to, keys[i], GetProp(from, keys[i])),
                      keys, i + 1)

\* $object.copyAllProperties(from, to): to[key] = from[key] for every key
CopyAllProperties(from, to) == CopyKeysFrom(from, to, Keys(from), 1)

----------------------------------------------------------------------------
(* Strings and the coercions of the fallback branch *)

Digits == {"0", "1", "2", "3", "4", "5", "6", "7", "8", "9"}
PercentChars == Digits \cup {".", "-"}
HexChars == Digits \cup {"a", "b", "c", "d", "e", "f"}
                   \cup {"A", "B", "C", "D", "E", "F"}

\* configValue.match(/^[0-9.\-]+\%$/)
MatchesPercent(s) ==
    /\ Len(s) >= 2
    /\ s[Len(s)] = "%"
    /\ \A i \in 1..(Len(s) - 1) : s[i] \in PercentChars

LowerHexChars == Digits \cup {"a", "b", "c", "d", "e", "f"}

\* The color pattern without its /i flag.
MatchesColorCaseSensitive(s) ==
    /\ Len(s) >= 4
    /\ s[1] = "#"
    /\ \A i \in 2..Len(s) : s[i] \in LowerHexChars

\* configValue.match(/^\#[0-9abcdef]{3,}$/i)
MatchesColor(s) ==
    /\ Len(s) >= 4
    /\ s[1] = "#"
    /\ \A i \in 2..Len(s) : s[i] \in HexChars

\* percent($type.toNumber(s)): the number is read from s without its "%"
PercentOf(s) == [k |-> "percent", num |-> SubSeq(s, 1, Len(s) - 1)]

\* color(s)
ColorOf(s) == [k |-> "color", hex |-> s]

\* The conversion applied to a config value before the fallback assignment.
Coerce(configValue) ==
    IF IsString(configValue)
    THEN IF MatchesPercent(configValue.s)
         THEN PercentOf(configValue.s)
         ELSE IF MatchesColor(configValue.s)
              THEN ColorOf(configValue.s)
              ELSE configValue
    ELSE configValue

----------------------------------------------------------------------------
(* Collections, adapters and event dispatchers *)

List(items) == [k |-> "list", items |-> items]
ListTemplate(items, template) ==
    [k |-> "listT", items |-> items, template |-> template]
Dictionary(kv) == [k |-> "dict", kv |-> kv]
DictionaryTemplate(kv, template) ==
    [k |-> "dictT", kv |-> kv, template |-> template]
Adapter(h) == [k |-> "adapter", h |-> h]
EventDispatcher(h) == [k |-> "events", h |-> h]

\* list.hasIndex(index), for the entry at 1-based position i
HasIndex(list, i) == i >= 1 /\ i <= Len(list.items)

\* list.setIndex(index, value)
SetIndex(list, i, value) ==
    IF HasIndex(list, i) THEN [list EXCEPT !.items[i] = value] ELSE list

\* list.push(value)
Push(list, value) == [list EXCEPT !.items = Append(@, value)]

\* list.indexOf(value): the first position holding the value, 0 if none
IndexOf(list, value) ==
    IF \E i \in 1..Len(list.items) : list.items[i] = value
    THEN CHOOSE i \in 1..Len(list.items) :
            /\ list.items[i] = value
            /\ \A j \in 1..(i - 1) : list.items[j] # value
    ELSE 0

RECURSIVE AddHandlers(_, _, _, _)
AddHandlers(item, config, keys, i) ==
    IF i > Len(keys)
    THEN item
    ELSE AddHandlers([item EXCEPT !.h = Append(@, KV(keys[i], GetProp(config, keys[i])))],
                     config, keys, i + 1)

\* processAdapters: item.add(key, entry) for every key of an object config
ProcessAdapters(item, config) ==
    IF IsObject(config) THEN AddHandlers(item, config, Keys(config), 1) ELSE item

\* processEvents: item.on(key, entry) for every key of an object config
ProcessEvents(item, config) ==
    IF IsObject(config) THEN AddHandlers(item, config, Keys(config), 1) ELSE item

----------------------------------------------------------------------------
(* Components and the registered-class table *)

Comp(cls, oid, props) == [k |-> "comp", cls |-> cls, oid |-> oid, props |-> props]

ItemName == <<"I", "t", "e", "m">>
LeafName == <<"L", "e", "a", "f">>
NopeName == <<"N", "o", "p", "e">>

NewLeaf(uid) == Comp("Leaf", uid, ("v" :> Undef))

NewItem(uid) ==
    Comp("Item", uid,
         ("v" :> Undef) @@
         ("kids" :> ListTemplate(<<>>, NewLeaf(uid + 1))))

\* system.registeredClasses: the registered type names
RegisteredClasses == {ItemName, LeafName}

\* new system.registeredClasses[className](), with the identities it uses
Construct(className, uid) ==
    IF className = ItemName
    THEN [v |-> NewItem(uid), uid |-> uid + 2]
    ELSE [v |-> NewLeaf(uid), uid |-> uid + 1]

IsRegistered(type) == type.k = "str" /\ type.s \in RegisteredClasses

\* createClassInstance(className): an instance, or undefined
CreateClassInstance(className, uid) ==
    IF IsRegistered(className)
    THEN Construct(className.s, uid)
    ELSE [v |-> Undef, uid |-> uid]

\* createEntryInstance(config): an instance of config.type, or config itself
CreateEntryInstance(config, uid) ==
    LET res == IF HasValue(GetProp(config, "type"))
               THEN CreateClassInstance(GetProp(config, "type"), uid)
               ELSE [v |-> Undef, uid |-> uid]
    IN  IF res.v = Undef THEN [v |-> config, uid |-> uid] ELSE res

\* Exceptions.  `at` is the number of keys applied when it is thrown.
InvalidType(type) == [k |-> "error", name |-> "Error", type |-> type, at |-> 0]
TypeError == [k |-> "error", name |-> "TypeError", type |-> Undef, at |-> 0]

\* getConfigEntryType(config): the registered class of config.type, undefined
\* when config has no type; throws for an unregistered type, and reading
\* .type of undefined throws a TypeError.
GetConfigEntryType(config) ==
    IF config.k = "undef"
    THEN [type |-> Undef, exc |-> TypeError]
    ELSE LET type == GetProp(config, "type")
         IN  IF HasValue(type)
             THEN IF IsRegistered(type)
                  THEN [type |-> type, exc |-> NoExc]
                  ELSE [type |-> Undef, exc |-> InvalidType(type)]
             ELSE [type |-> Undef, exc |-> NoExc]

\* clone(): a new object of the template's class that takes over the
\* template's plain property values.
Clone(template, uid) ==
    LET made == IF template.cls = "Item"
                THEN [v |-> NewItem(uid), uid |-> uid + 2]
                ELSE [v |-> NewLeaf(uid), uid |-> uid + 1]
        copied == [key \in DOMAIN made.v.props |->
                     IF /\ key \in DOMAIN template.props
                        /\ template.props[key].k \notin {"comp", "list", "listT", "dict", "dictT"}
                     THEN template.props[key]
                     ELSE made.v.props[key]]
    IN  [v |-> [made.v EXCEPT !.props = copied], uid |-> made.uid]

\* A test that knows of Color only.
IsColorOnly(item) == item.k = "color"

\* item_1 instanceof Color || item_1 instanceof Percent
IsColorOrPercent(item) == item.k \in {"color", "percent"}

\* A membership test that takes every key for a property.
HasPropertyAlways(c, prop) == TRUE

\* hasProperty(prop): prop in this
HasProperty(c, prop) == prop \in DOMAIN c.props

\* A component without as-is fields.
AsIsNone(field) == FALSE

\* asIs(field)
AsIs(field) == field \in {"locale"}

\* An ordering that never moves a key.
ConfigOrderNone(a, b) == 0

\* configOrder(a, b)
ConfigOrder(a, b) ==
    IF a = b THEN 0
    ELSE IF a = "language" THEN -1
    ELSE IF b = "language" THEN 1
    ELSE 0

\* Stable insertion of key x into the sorted keys s.
InsertKey(s, x) ==
    LET p == CHOOSE q \in 1..(Len(s) + 1) :
                /\ \A j \in q..Len(s) : ConfigOrder(s[j], x) > 0
                /\ (q > 1 => ConfigOrder(s[q - 1], x) <= 0)
    IN  SubSeq(s, 1, p - 1) \o <<x>> \o SubSeq(s, p, Len(s))

RECURSIVE SortKeysFrom(_, _, _)
SortKeysFrom(sorted, keys, i) ==
    IF i > Len(keys)
    THEN sorted
    ELSE SortKeysFrom(InsertKey(sorted, keys[i]), keys, i + 1)

\* $object.keysOrdered(config, this.configOrder)
KeysOrdered(config) == SortKeysFrom(<<>>, Keys(config), 1)


----------------------------------------------------------------------------
(* The config processor.  Every operator takes the running state st (the   *)
(* next unused identity, the critical errors reported so far and the keys  *)
(* applied so far) and yields the changed value v, the new running state   *)
(* and the exception exc it throws (NoExc if it returns normally).         *)

Res(v, st, exc) == [v |-> v, st |-> st, exc |-> exc]

\* Sequencing: an exception thrown by the step r ends the loop or the
\* function it is in; otherwise its continuation K runs on what r left.
Bind(r, K(_, _)) == IF r.exc # NoExc THEN r ELSE K(r.v, r.st)

\* The outcome r of working on a part, with the part put back by W.
Into(r, W(_)) == Res(W(r.v), r.st, r.exc)

\* throw e
Throw(v, st, e) == Res(v, st, [e EXCEPT !.at = Len(st.trace)])

\* raiseCriticalError(e): reports e for component c and returns.
RaiseCriticalError(c, e, st) ==
    Res(c, [st EXCEPT !.raised = Append(@, [oid |-> c.oid, cause |-> e])], NoExc)

RECURSIVE ProcessConfig(_, _, _)
RECURSIVE ProcessKeysFrom(_, _, _, _, _)
RECURSIVE ListTemplateEntriesFrom(_, _, _, _)
RECURSIVE TemplateKeysFrom(_, _, _, _, _)
RECURSIVE ListEntriesFrom(_, _, _, _)
RECURSIVE DictionaryKeysFrom(_, _, _, _, _)

\* catch (e) { this.raiseCriticalError(e) } applied to the outcome r of the
\* try block.
Catch(r) ==
    IF r.exc = NoExc THEN r ELSE RaiseCriticalError(r.v, r.exc, r.st)

\* A setter without the try/catch: the exception reaches the assigning code.
ConfigSetterUncaught(c, config, st) == ProcessConfig(c, config, st)

\* A setter that restores the component it was given before it reports.
CatchRollback(c, r) ==
    IF r.exc = NoExc THEN r ELSE RaiseCriticalError(c, r.exc, r.st)

ConfigSetterRollback(c, config, st) ==
    CatchRollback(c, ProcessConfig(c, config, st))

\* set config(config): try { processConfig } catch (e) { raiseCriticalError }
ConfigSetter(c, config, st) == Catch(ProcessConfig(c, config, st))

\* The "set data" part of processDictionaryTemplate for one key: item holds
\* listItem under entryKey.
DictionaryEntry(item, entryKey, entryValue, listItem, st) ==
    IF IsBaseObject(listItem)
    THEN Into(ConfigSetter(listItem, entryValue, st),
              LAMBDA v : [item EXCEPT !.kv = PutKey(@, entryKey, v)])
    ELSE IF IsObject(listItem) /\ IsObject(entryValue)
    THEN Res([item EXCEPT !.kv =
                 PutKey(@, entryKey, CopyAllProperties(entryValue, listItem))],
             st, NoExc)
    ELSE IF listItem.k \in {"dict", "dictT"}
    THEN Res([item EXCEPT !.kv =
                 PutKey(@, entryKey,
                        [listItem EXCEPT !.kv = PutKey(@, entryKey, entryValue)])],
             st, NoExc)
    ELSE Throw(item, st, TypeError)

\* One key of processDictionaryTemplate; made is the entry found under the
\* key or created for it.
DictionaryKey(item, entryKey, entryValue, made, st) ==
    DictionaryEntry([item EXCEPT !.kv = PutKey(@, entryKey, made.v)],
                    entryKey, entryValue, made.v, [st EXCEPT !.uid = made.uid])

DictionaryKeysFrom(item, config, keys, i, st) ==
    IF i > Len(keys)
    THEN Res(item, st, NoExc)
    ELSE Bind(DictionaryKey(item, keys[i], GetProp(config, keys[i]),
                            IF HasKey(item.kv, keys[i])
                            THEN [v |-> item.kv[KeyIndex(item.kv, keys[i])].val,
                                  uid |-> st.uid]
                            ELSE Clone(item.template, st.uid),
                            st),
              LAMBDA v, s : DictionaryKeysFrom(v, config, keys, i + 1, s))

\* processDictionaryTemplate(item, config)
ProcessDictionaryTemplate(item, config, st) ==
    IF IsObject(config)
    THEN DictionaryKeysFrom(item, config, Keys(config), 1, st)
    ELSE Res(item, st, NoExc)

\* The merge of one array entry into listItem, which item holds at pos.
ListTemplateMerge(item, pos, entry, listItem, st) ==
    IF IsObject(entry)
    THEN IF IsBaseObject(listItem)
         THEN Into(ConfigSetter(listItem, entry, st),
                   LAMBDA v : [item EXCEPT !.items[pos] = v])
         ELSE IF IsObject(listItem)
         THEN Res([item EXCEPT !.items[pos] = CopyAllProperties(entry, listItem)],
                  st, NoExc)
         ELSE Res(SetIndex(item, IndexOf(item, listItem), entry), st, NoExc)
    ELSE Res(item, st, NoExc)

\* One array entry of the ListTemplate branch: the element at the entry's
\* position is reused, or one is created (made) and pushed.
ListTemplateEntry(item, i, entry, made, st) ==
    IF HasIndex(item, i)
    THEN ListTemplateMerge(item, i, entry, item.items[i], st)
    ELSE ListTemplateMerge(Push(item, made.v), Len(item.items) + 1, entry, made.v,
                           [st EXCEPT !.uid = made.uid])

\* The element made for an entry without one: of the entry's type, or a
\* clone of the template.
ListTemplateCreate(item, type, uid) ==
    IF type # Undef
    THEN CreateClassInstance(type, uid)
    ELSE Clone(item.template, uid)

\* The entry with its type t resolved.
ListTemplateTyped(item, i, entry, t, st) ==
    IF t.exc # NoExc
    THEN Throw(item, st, t.exc)
    ELSE ListTemplateEntry(item, i, entry,
                           ListTemplateCreate(item, t.type, st.uid), st)

\* The array case of the ListTemplate branch, from entry i on.
ListTemplateEntriesFrom(item, entries, i, st) ==
    IF i > Len(entries)
    THEN Res(item, st, NoExc)
    ELSE Bind(ListTemplateTyped(item, i, entries[i],
                                GetConfigEntryType(entries[i]), st),
              LAMBDA v, s : ListTemplateEntriesFrom(v, entries, i + 1, s))

\* One key of a single-object config applied to the list's template, whose
\* entryKey holds listItem.
TemplateKey(listItem, entryValue, st) ==
    IF listItem.k = "adapter"
    THEN Res(ProcessAdapters(listItem, entryValue), st, NoExc)
    ELSE IF listItem.k = "events"
    THEN Res(ProcessEvents(listItem, entryValue), st, NoExc)
    ELSE IF listItem.k = "dictT"
    THEN ProcessDictionaryTemplate(listItem, entryValue, st)
    ELSE IF IsBaseObject(listItem)
    THEN ConfigSetter(listItem, entryValue, st)
    ELSE Res(entryValue, st, NoExc)

\* The single-object case of the ListTemplate branch, from key i on.
TemplateKeysFrom(item, config, keys, i, st) ==
    IF i > Len(keys)
    THEN Res(item, st, NoExc)
    ELSE Bind(Into(TemplateKey(GetProp(item.template, keys[i]),
                               GetProp(config, keys[i]), st),
                   LAMBDA v : [item EXCEPT !.template = SetProp(@, keys[i], v)]),
              LAMBDA v, s : TemplateKeysFrom(v, config, keys, i + 1, s))

\* The push of the List branch for an object entry without an element; made
\* is what createEntryInstance returned.  No config is applied to it.
ListPushCreated(item, made, st) ==
    Res(Push(item, made.v), [st EXCEPT !.uid = made.uid], NoExc)

\* One entry of the List branch, at position i.
ListEntry(item, i, entry, st) ==
    IF IsObject(entry)
    THEN IF HasIndex(item, i)
         THEN IF IsBaseObject(item.items[i])
              THEN Into(ConfigSetter(item.items[i], entry, st),
                        LAMBDA v : [item EXCEPT !.items[i] = v])
              ELSE Res(item, st, NoExc)
         ELSE ListPushCreated(item, CreateEntryInstance(entry, st.uid), st)
    ELSE IF HasIndex(item, i)
         THEN Res(SetIndex(item, i, entry), st, NoExc)
         ELSE Res(Push(item, entry), st, NoExc)

\* The List branch, from entry i on.
ListEntriesFrom(item, entries, i, st) ==
    IF i > Len(entries)
    THEN Res(item, st, NoExc)
    ELSE Bind(ListEntry(item, i, entries[i], st),
              LAMBDA v, s : ListEntriesFrom(v, entries, i + 1, s))

\* The chain of branches that processConfig takes for one key, with item the
\* merge destination; target[configKey] holds item.
Dispatch(target, configKey, configValue, item, st) ==
    IF item.k = "adapter"
    THEN Res(SetProp(target, configKey, ProcessAdapters(item, configValue)), st, NoExc)
    ELSE IF item.k = "events"
    THEN Res(SetProp(target, configKey, ProcessEvents(item, configValue)), st, NoExc)
    ELSE IF AsIs(configKey)
    THEN Res(SetProp(target, configKey, configValue), st, NoExc)
    ELSE IF IsBaseObject(configValue)
    THEN Res(SetProp(target, configKey, configValue), st, NoExc)
    ELSE IF IsBaseObject(item)
    THEN Into(ConfigSetter(item, configValue, st),
              LAMBDA v : SetProp(target, configKey, v))
    ELSE IF item.k = "listT"
    THEN IF IsArray(configValue)
         THEN Into(ListTemplateEntriesFrom(item, configValue.a, 1, st),
                   LAMBDA v : SetProp(target, configKey, v))
         ELSE IF IsObject(configValue)
         THEN Into(TemplateKeysFrom(item, configValue, Keys(configValue), 1, st),
                   LAMBDA v : SetProp(target, configKey, v))
         ELSE Res(target, st, NoExc)
    ELSE IF item.k = "list"
    THEN Into(ListEntriesFrom(item,
                              IF IsArray(configValue)
                              THEN configValue.a ELSE <<configValue>>,
                              1, st),
              LAMBDA v : SetProp(target, configKey, v))
    ELSE IF item.k = "dictT"
    THEN Into(ProcessDictionaryTemplate(item, configValue, st),
              LAMBDA v : SetProp(target, configKey, v))
    ELSE IF item.k = "dict"
    THEN Res(target, st, NoExc)
    ELSE IF IsColorOrPercent(item)
    THEN Res(SetProp(target, configKey, configValue), st, NoExc)
    ELSE IF IsObject(item) /\ IsObject(configValue)
    THEN Res(SetProp(target, configKey, CopyAllProperties(configValue, item)), st, NoExc)
    ELSE Res(SetProp(target, configKey, Coerce(configValue)), st, NoExc)

\* A creation step that builds the instance and goes on with the old value.
ProcessCreatedKeepOld(c, configKey, configValue, made, st) ==
    Dispatch(c, configKey, configValue, GetProp(c, configKey),
             [st EXCEPT !.uid = made.uid])

\* "Do we have instructions to create an object?": made is what
\* createClassInstance returned for configValue.type.
ProcessCreated(c, configKey, configValue, made, st) ==
    IF made.v # Undef
    THEN Dispatch(SetProp(c, configKey, made.v), configKey, configValue, made.v,
                  [st EXCEPT !.uid = made.uid])
    ELSE Dispatch(c, configKey, configValue, GetProp(c, configKey), st)

\* A key that is a property of the target; st records it as applied.
ProcessProperty(c, configKey, configValue, st) ==
    IF IsObject(configValue) /\ HasValue(GetProp(configValue, "type"))
    THEN ProcessCreated(c, configKey, configValue,
                        CreateClassInstance(GetProp(configValue, "type"), st.uid), st)
    ELSE Dispatch(c, configKey, configValue, GetProp(c, configKey), st)

\* The callback processConfig runs for one key of the config.
ProcessKey(c, configKey, configValue, st) ==
    IF ~HasProperty(c, configKey)
    THEN Res(c, st, NoExc)
    ELSE ProcessProperty(c, configKey, configValue,
                         [st EXCEPT !.trace = Append(@, <<c.oid, configKey>>)])

\* A loop that goes on with the remaining keys after a key has thrown, and
\* throws once they are done.
Resume(r, K(_, _)) ==
    IF r.exc = NoExc
    THEN K(r.v, r.st)
    ELSE Res(K(r.v, r.st).v, K(r.v, r.st).st, r.exc)

ProcessKeysFromResume(c, config, keys, i, st) ==
    IF i > Len(keys)
    THEN Res(c, st, NoExc)
    ELSE Resume(ProcessKey(c, keys[i], GetProp(config, keys[i]), st),
                LAMBDA v, s : ProcessKeysFrom(v, config, keys, i + 1, s))

\* $object.eachOrdered(config, callback, this.configOrder): the callback for
\* the keys from the i-th on.
ProcessKeysFrom(c, config, keys, i, st) ==
    IF i > Len(keys)
    THEN Res(c, st, NoExc)
    ELSE Bind(ProcessKey(c, keys[i], GetProp(config, keys[i]), st),
              LAMBDA v, s : ProcessKeysFrom(v, config, keys, i + 1, s))

\* processConfig(config)
ProcessConfig(c, config, st) ==
    IF IsFalsy(config)
    THEN Res(c, st, NoExc)
    ELSE ProcessKeysFrom(c, config, KeysOrdered(config), 1, st)

----------------------------------------------------------------------------
(* The state of the path functions while configs are processed *)

NoCall == [fn |-> "none"]

\* No path function has been called and the ghost paper is empty.
PathIdle ==
    /\ call = NoCall
    /\ nodes = 0
    /\ added = 0
    /\ supported = TRUE

Null == [k |-> "null"]

\* An array of disposers
Disposers(items) == [k |-> "array", items |-> items]

\* _this._disposers.push(_this.events)
EventsDisposer == [kind |-> "events", id |-> 0]

\* new Disposer(function () { clearTimeout(id); })
TimeoutDisposer(id) == [kind |-> "timeout", id |-> id]

\* new Disposer(function () { _this.dispose(); })
ReentrantDisposer == [kind |-> "reentrant", id |-> 0]

NoKey == ""

This == "this"

\* One key of system.map
MapEntry(key, obj) == [key |-> key, obj |-> obj]

\* system.map holding some other object under the uid it was given
OtherObjects == {MapEntry("id-0", "other")}

\* A BaseObjectEvents just constructed.
ObjectIdle ==
    /\ disposed = FALSE
    /\ disposers = Disposers(<<EventsDisposer>>)
    /\ timers = <<>>
    /\ ran = <<>>
    /\ delivered = <<>>
    /\ disposeCalls = 0
    /\ disposeLog = <<>>
    /\ flagged = {}
    /\ systemMap = OtherObjects
    /\ ownUid = NoKey
    /\ ownId = NoKey

----------------------------------------------------------------------------
(* The component under configuration *)

RootUid == 1

\* A chart-like component: plain properties, a child component, a list with
\* template, a plain list, an adapter, an event dispatcher, a color, a
\* dictionary with template and the `map` dictionary of BaseObject.
NewRoot(seriesItems, listItems) ==
    Comp("Root", RootUid,
         ("language" :> Undef) @@
         ("locale" :> Undef) @@
         ("p" :> Undef) @@
         ("child" :> NewItem(2)) @@
         ("series" :> ListTemplate(seriesItems, NewItem(4))) @@
         ("list" :> List(listItems)) @@
         ("adapter" :> Adapter(<<>>)) @@
         ("events" :> EventDispatcher(<<>>)) @@
         ("fill" :> ColorOf(<<"#", "0", "0", "0">>)) @@
         ("dict" :> DictionaryTemplate(<<>>, NewItem(6))) @@
         ("map" :> Dictionary(<<>>)))

FirstFreeUid == 12

InitSeries == {<<>>, <<NewItem(8)>>}
InitLists == {<<>>, <<Num(0)>>, <<Obj(<<KV("v", Num(0))>>)>>, <<NewItem(10)>>}

Init ==
    /\ root \in {NewRoot(s, l) : s \in InitSeries, l \in InitLists}
    /\ nextUid = FirstFreeUid
    /\ pre = root
    /\ preUid = nextUid
    /\ lastCfg = NoCfg
    /\ again = FALSE
    /\ raised = <<>>
    /\ trace = <<>>
    /\ escaped = NoExc
    /\ applies = 0
    /\ PathIdle
    /\ ObjectIdle

\* root.config = cfg, as one step of the assigning code.
Assigned(cfg, r) ==
    /\ root' = r.v
    /\ nextUid' = r.st.uid
    /\ pre' = root
    /\ preUid' = nextUid
    /\ lastCfg' = cfg
    /\ again' = (cfg = lastCfg)
    /\ raised' = r.st.raised
    /\ trace' = r.st.trace
    /\ escaped' = r.exc
    /\ applies' = applies + 1
    /\ UNCHANGED <<pathVars, objectVars>>

ConfigSet(cfg) ==
    Assigned(cfg, ConfigSetter(root, cfg,
                               [uid |-> nextUid, raised |-> <<>>, trace |-> <<>>]))

----------------------------------------------------------------------------
(* Configs *)

O1(k1, v1) == Obj(<<KV(k1, v1)>>)
O2(k1, v1, k2, v2) == Obj(<<KV(k1, v1), KV(k2, v2)>>)

Typed(name) == O1("type", Str(name))
TypedV(name, n) == O2("type", Str(name), "v", Num(n))

\* A component built by the caller and handed over as a config value.
Prebuilt == NewLeaf(0)

\* A sub-config whose `kids` entry names an unregistered type, followed by a
\* plain key.
BadKids == O2("kids", Arr(<<Typed(NopeName)>>), "v", Num(1))

\* Entries of the arrays given to the collections.
ArrayEntries ==
    { Num(1), O1("v", Num(1)), TypedV(ItemName, 2), Typed(NopeName) }

Arrays ==
    { Arr(a) : a \in UNION { [1..n -> ArrayEntries] : n \in 1..MaxEntries } }

\* One array config for a list with template and for a plain list.
ListConfigs ==
    { O1(key, a) : key \in {"series", "list"}, a \in Arrays }

\* One key for each remaining branch of processConfig.
BranchConfigs ==
    { O1("events", O1("hit", Num(1))),
      O1("fill", Str(<<"#", "f", "f", "f">>)),
      O1("p", Str(<<"5", "0", "%">>)),
      O1("series", O2("v", Num(3), "kids", Arr(<<Typed(NopeName)>>))),
      O1("list", Num(5)),
      O1("list", Arr(<<BadKids>>)),
      O1("map", O1("a", Num(1))),
      O1("child", Prebuilt),
      O1("dict", O2("a", Num(1), "b", O1("v", Num(1)))) }

\* The key/value pairs the multi-key configs are made of.
KeyEntries ==
    { KV("p", Num(1)),
      KV("p", TypedV(ItemName, 1)),
      KV("p", Typed(NopeName)),
      KV("language", Str(<<"e", "n">>)),
      KV("locale", Typed(ItemName)),
      KV("zzz", TypedV(ItemName, 1)),
      KV("child", BadKids),
      KV("child", TypedV(LeafName, 1)),
      KV("series", Arr(<<BadKids, Typed(NopeName)>>)),
      KV("adapter", O1("fill", Num(1))),
      KV("dict", O1("a", BadKids)) }

KeyConfigs ==
    { Obj(s) : s \in UNION { { t \in [1..n -> KeyEntries] :
                                 \A i, j \in 1..n : i # j => t[i].key # t[j].key }
                             : n \in 1..MaxKeys } }

Configs == ListConfigs \cup BranchConfigs \cup KeyConfigs

----------------------------------------------------------------------------
(* The assigning code: a config is assigned to the component, and the same *)
(* config may be assigned again.                                           *)

Assign == applies = 0 /\ \E cfg \in Configs : ConfigSet(cfg)

Reassign == applies >= 1 /\ applies < MaxApplies /\ ConfigSet(lastCfg)

Next == Assign \/ Reassign

Spec == Init /\ [][Next]_vars

----------------------------------------------------------------------------
(* Strings assigned to a plain property *)

CoerceChars == {"1", "-", ".", "%", "#", "a", "F", "g"}

Strings == UNION { [1..n -> CoerceChars] : n \in 0..MaxStrLen }

InitCoerce ==
    /\ root \in { SetProp(NewRoot(<<>>, <<>>), "p", v) :
                    v \in {Undef, O1("a", Num(1))} }
    /\ nextUid = FirstFreeUid
    /\ pre = root
    /\ preUid = nextUid
    /\ lastCfg = NoCfg
    /\ again = FALSE
    /\ raised = <<>>
    /\ trace = <<>>
    /\ escaped = NoExc
    /\ applies = 0
    /\ PathIdle
    /\ ObjectIdle

AssignString == applies = 0 /\ \E s \in Strings : ConfigSet(O1("p", Str(s)))

NextCoerce == AssignString \/ Reassign

SpecCoerce == InitCoerce /\ [][NextCoerce]_vars

----------------------------------------------------------------------------
(* Values assigned to an as-is field, a Color and a Percent *)

\* What the as-is field `locale` may hold before the assignment.
InitLocales ==
    { Undef, Adapter(<<>>), EventDispatcher(<<>>), NewLeaf(7),
      ColorOf(<<"#", "0", "0", "0">>), List(<<>>), O1("a", Num(0)) }

ValueKeys == {"locale", "fill", "width"}

ConfigValues ==
    { Str(<<"5", "0", "%">>), Str(<<"#", "f", "f", "f">>), Num(1),
      O1("a", Num(1)), TypedV(ItemName, 1), Typed(NopeName), Prebuilt,
      Arr(<<Num(1)>>) }

InitValues ==
    /\ root \in { SetProp(SetProp(NewRoot(<<>>, <<>>), "locale", v),
                          "width", PercentOf(<<"5", "0", "%">>)) :
                    v \in InitLocales }
    /\ nextUid = FirstFreeUid
    /\ pre = root
    /\ preUid = nextUid
    /\ lastCfg = NoCfg
    /\ again = FALSE
    /\ raised = <<>>
    /\ trace = <<>>
    /\ escaped = NoExc
    /\ applies = 0
    /\ PathIdle
    /\ ObjectIdle

AssignValue ==
    /\ applies = 0
    /\ \E key \in ValueKeys, v \in ConfigValues : ConfigSet(O1(key, v))

NextValues == AssignValue \/ Reassign

SpecValues == InitValues /\ [][NextValues]_vars

----------------------------------------------------------------------------
(* Objects assigned to a dictionary with template *)

\* What the dictionary `dict` may hold before the assignment: components
\* made from its template, and values put under a key with setKey.
InitDicts ==
    { <<>>,
      <<KV("a", NewItem(8))>>,
      <<KV("a", Num(0))>>,
      <<KV("a", O1("v", Num(0)))>>,
      <<KV("a", NewItem(8)), KV("b", Num(0))>> }

DictKeys == {"a", "b", "c"}

DictValues == { Num(1), O1("v", Num(1)), O2("v", Num(2), "w", Num(3)) }

DictConfigs ==
    { O1(k1, v1) : k1 \in DictKeys, v1 \in DictValues }
        \cup UNION { { O2(ks[1], v1, ks[2], v2) :
                          v1 \in DictValues, v2 \in {Num(1), O1("v", Num(1))} } :
                      ks \in { t \in DictKeys \X DictKeys : t[1] # t[2] } }

InitDict ==
    /\ root \in { SetProp(NewRoot(<<>>, <<>>), "dict",
                           DictionaryTemplate(kv, NewItem(6))) :
                    kv \in InitDicts }
    /\ nextUid = FirstFreeUid
    /\ pre = root
    /\ preUid = nextUid
    /\ lastCfg = NoCfg
    /\ again = FALSE
    /\ raised = <<>>
    /\ trace = <<>>
    /\ escaped = NoExc
    /\ applies = 0
    /\ PathIdle
    /\ ObjectIdle

AssignDict ==
    /\ applies = 0
    /\ \E d \in DictConfigs : ConfigSet(O1("dict", d))

NextDict == AssignDict \/ Reassign

SpecDict == InitDict /\ [][NextDict]_vars

----------------------------------------------------------------------------
(* Path functions: numbers                                                 *)
(*                                                                         *)
(* Lengths and coordinates are integers counting hundredths, angles are    *)
(* integers counting quarters of a degree, and a sine or cosine is an      *)
(* integer counting thousandths.  Where the code rounds a coordinate with  *)
(* $math.round(x, 4), the model rounds to the hundredth it keeps.          *)

\* One unit of length.
Unit == 100

\* One degree.
Deg == 4

\* The value 1 of a sine.
One == 1000

Abs(n) == IF n < 0 THEN -n ELSE n

\* a / b rounded to the nearest integer, halves away from zero.
RoundDiv(a, b) ==
    LET q == (2 * Abs(a) + Abs(b)) \div (2 * Abs(b))
    IN  IF (a < 0) = (b < 0) THEN q ELSE -q

\* Math.ceil(a / b) for b > 0
CeilDiv(a, b) == -((-a) \div b)

\* The sines of 0, 0.25, ..., 90 degrees.
SineTable ==
    <<
       0, 4, 9, 13, 17, 22, 26, 31, 35, 39, 44, 48,
       52, 57, 61, 65, 70, 74, 78, 83, 87, 92, 96, 100,
       105, 109, 113, 118, 122, 126, 131, 135, 139, 143, 148, 152,
       156, 161, 165, 169, 174, 178, 182, 187, 191, 195, 199, 204,
       208, 212, 216, 221, 225, 229, 233, 238, 242, 246, 250, 255,
       259, 263, 267, 271, 276, 280, 284, 288, 292, 297, 301, 305,
       309, 313, 317, 321, 326, 330, 334, 338, 342, 346, 350, 354,
       358, 362, 367, 371, 375, 379, 383, 387, 391, 395, 399, 403,
       407, 411, 415, 419, 423, 427, 431, 434, 438, 442, 446, 450,
       454, 458, 462, 466, 469, 473, 477, 481, 485, 489, 492, 496,
       500, 504, 508, 511, 515, 519, 522, 526, 530, 534, 537, 541,
       545, 548, 552, 556, 559, 563, 566, 570, 574, 577, 581, 584,
       588, 591, 595, 598, 602, 605, 609, 612, 616, 619, 623, 626,
       629, 633, 636, 639, 643, 646, 649, 653, 656, 659, 663, 666,
       669, 672, 676, 679, 682, 685, 688, 692, 695, 698, 701, 704,
       707, 710, 713, 716, 719, 722, 725, 728, 731, 734, 737, 740,
       743, 746, 749, 752, 755, 758, 760, 763, 766, 769, 772, 774,
       777, 780, 783, 785, 788, 791, 793, 796, 799, 801, 804, 806,
       809, 812, 814, 817, 819, 822, 824, 827, 829, 831, 834, 836,
       839, 841, 843, 846, 848, 850, 853, 855, 857, 859, 862, 864,
       866, 868, 870, 872, 875, 877, 879, 881, 883, 885, 887, 889,
       891, 893, 895, 897, 899, 901, 903, 904, 906, 908, 910, 912,
       914, 915, 917, 919, 921, 922, 924, 926, 927, 929, 930, 932,
       934, 935, 937, 938, 940, 941, 943, 944, 946, 947, 948, 950,
       951, 952, 954, 955, 956, 958, 959, 960, 961, 962, 964, 965,
       966, 967, 968, 969, 970, 971, 972, 973, 974, 975, 976, 977,
       978, 979, 980, 981, 982, 982, 983, 984, 985, 986, 986, 987,
       988, 988, 989, 990, 990, 991, 991, 992, 993, 993, 994, 994,
       995, 995, 995, 996, 996, 997, 997, 997, 998, 998, 998, 998,
       999, 999, 999, 999, 999, 1000, 1000, 1000, 1000, 1000, 1000, 1000,
       1000
    >>

\* $math.sin(angle), the angle in quarters of a degree
Sin(angle) ==
    LET a == angle % (360 * Deg)
    IN  IF a <= 90 * Deg THEN SineTable[a + 1]
        ELSE IF a <= 180 * Deg THEN SineTable[180 * Deg - a + 1]
        ELSE IF a <= 270 * Deg THEN -SineTable[a - 180 * Deg + 1]
        ELSE -SineTable[360 * Deg - a + 1]

\* $math.cos(angle)
Cos(angle) == Sin(angle + 90 * Deg)

\* The angles whose sines are 0, 0.001, ..., 1.
ArcSineTable ==
    <<
       0, 0, 0, 1, 1, 1, 1, 2, 2, 2, 2, 3, 3, 3, 3, 3, 4, 4, 4, 4,
       5, 5, 5, 5, 6, 6, 6, 6, 6, 7, 7, 7, 7, 8, 8, 8, 8, 8, 9, 9,
       9, 9, 10, 10, 10, 10, 11, 11, 11, 11, 11, 12, 12, 12, 12, 13, 13, 13, 13, 14,
       14, 14, 14, 14, 15, 15, 15, 15, 16, 16, 16, 16, 17, 17, 17, 17, 17, 18, 18, 18,
       18, 19, 19, 19, 19, 20, 20, 20, 20, 20, 21, 21, 21, 21, 22, 22, 22, 22, 22, 23,
       23, 23, 23, 24, 24, 24, 24, 25, 25, 25, 25, 25, 26, 26, 26, 26, 27, 27, 27, 27,
       28, 28, 28, 28, 28, 29, 29, 29, 29, 30, 30, 30, 30, 31, 31, 31, 31, 31, 32, 32,
       32, 32, 33, 33, 33, 33, 34, 34, 34, 34, 35, 35, 35, 35, 35, 36, 36, 36, 36, 37,
       37, 37, 37, 38, 38, 38, 38, 38, 39, 39, 39, 39, 40, 40, 40, 40, 41, 41, 41, 41,
       41, 42, 42, 42, 42, 43, 43, 43, 43, 44, 44, 44, 44, 45, 45, 45, 45, 45, 46, 46,
       46, 46, 47, 47, 47, 47, 48, 48, 48, 48, 48, 49, 49, 49, 49, 50, 50, 50, 50, 51,
       51, 51, 51, 52, 52, 52, 52, 52, 53, 53, 53, 53, 54, 54, 54, 54, 55, 55, 55, 55,
       56, 56, 56, 56, 56, 57, 57, 57, 57, 58, 58, 58, 58, 59, 59, 59, 59, 60, 60, 60,
       60, 61, 61, 61, 61, 61, 62, 62, 62, 62, 63, 63, 63, 63, 64, 64, 64, 64, 65, 65,
       65, 65, 66, 66, 66, 66, 66, 67, 67, 67, 67, 68, 68, 68, 68, 69, 69, 69, 69, 70,
       70, 70, 70, 71, 71, 71, 71, 72, 72, 72, 72, 72, 73, 73, 73, 73, 74, 74, 74, 74,
       75, 75, 75, 75, 76, 76, 76, 76, 77, 77, 77, 77, 78, 78, 78, 78, 79, 79, 79, 79,
       80, 80, 80, 80, 80, 81, 81, 81, 81, 82, 82, 82, 82, 83, 83, 83, 83, 84, 84, 84,
       84, 85, 85, 85, 85, 86, 86, 86, 86, 87, 87, 87, 87, 88, 88, 88, 88, 89, 89, 89,
       89, 90, 90, 90, 90, 91, 91, 91, 91, 92, 92, 92, 92, 93, 93, 93, 93, 94, 94, 94,
       94, 95, 95, 95, 95, 96, 96, 96, 96, 97, 97, 97, 97, 98, 98, 98, 98, 99, 99, 99,
       99, 100, 100, 100, 100, 101, 101, 101, 101, 102, 102, 102, 102, 103, 103, 103, 103, 104, 104, 104,
       104, 105, 105, 105, 105, 106, 106, 106, 106, 107, 107, 107, 107, 108, 108, 108, 109, 109, 109, 109,
       110, 110, 110, 110, 111, 111, 111, 111, 112, 112, 112, 112, 113, 113, 113, 113, 114, 114, 114, 114,
       115, 115, 115, 116, 116, 116, 116, 117, 117, 117, 117, 118, 118, 118, 118, 119, 119, 119, 119, 120,
       120, 120, 121, 121, 121, 121, 122, 122, 122, 122, 123, 123, 123, 123, 124, 124, 124, 125, 125, 125,
       125, 126, 126, 126, 126, 127, 127, 127, 127, 128, 128, 128, 129, 129, 129, 129, 130, 130, 130, 130,
       131, 131, 131, 132, 132, 132, 132, 133, 133, 133, 133, 134, 134, 134, 135, 135, 135, 135, 136, 136,
       136, 136, 137, 137, 137, 138, 138, 138, 138, 139, 139, 139, 140, 140, 140, 140, 141, 141, 141, 142,
       142, 142, 142, 143, 143, 143, 143, 144, 144, 144, 145, 145, 145, 145, 146, 146, 146, 147, 147, 147,
       147, 148, 148, 148, 149, 149, 149, 149, 150, 150, 150, 151, 151, 151, 152, 152, 152, 152, 153, 153,
       153, 154, 154, 154, 154, 155, 155, 155, 156, 156, 156, 156, 157, 157, 157, 158, 158, 158, 159, 159,
       159, 159, 160, 160, 160, 161, 161, 161, 162, 162, 162, 162, 163, 163, 163, 164, 164, 164, 165, 165,
       165, 166, 166, 166, 166, 167, 167, 167, 168, 168, 168, 169, 169, 169, 170, 170, 170, 170, 171, 171,
       171, 172, 172, 172, 173, 173, 173, 174, 174, 174, 175, 175, 175, 175, 176, 176, 176, 177, 177, 177,
       178, 178, 178, 179, 179, 179, 180, 180, 180, 181, 181, 181, 182, 182, 182, 183, 183, 183, 184, 184,
       184, 185, 185, 185, 186, 186, 186, 187, 187, 187, 188, 188, 188, 189, 189, 189, 190, 190, 190, 191,
       191, 191, 192, 192, 192, 193, 193, 193, 194, 194, 194, 195, 195, 195, 196, 196, 196, 197, 197, 198,
       198, 198, 199, 199, 199, 200, 200, 200, 201, 201, 201, 202, 202, 202, 203, 203, 204, 204, 204, 205,
       205, 205, 206, 206, 207, 207, 207, 208, 208, 208, 209, 209, 209, 210, 210, 211, 211, 211, 212, 212,
       213, 213, 213, 214, 214, 214, 215, 215, 216, 216, 216, 217, 217, 218, 218, 218, 219, 219, 220, 220,
       220, 221, 221, 222, 222, 222, 223, 223, 224, 224, 224, 225, 225, 226, 226, 226, 227, 227, 228, 228,
       229, 229, 229, 230, 230, 231, 231, 232, 232, 232, 233, 233, 234, 234, 235, 235, 235, 236, 236, 237,
       237, 238, 238, 239, 239, 240, 240, 240, 241, 241, 242, 242, 243, 243, 244, 244, 245, 245, 246, 246,
       247, 247, 248, 248, 249, 249, 249, 250, 250, 251, 251, 252, 253, 253, 254, 254, 255, 255, 256, 256,
       257, 257, 258, 258, 259, 259, 260, 260, 261, 261, 262, 263, 263, 264, 264, 265, 265, 266, 267, 267,
       268, 268, 269, 269, 270, 271, 271, 272, 273, 273, 274, 274, 275, 276, 276, 277, 278, 278, 279, 280,
       280, 281, 282, 282, 283, 284, 284, 285, 286, 286, 287, 288, 289, 289, 290, 291, 292, 293, 293, 294,
       295, 296, 297, 297, 298, 299, 300, 301, 302, 303, 304, 305, 306, 307, 308, 309, 310, 311, 312, 313,
       314, 315, 316, 318, 319, 320, 322, 323, 324, 326, 328, 329, 331, 333, 335, 337, 339, 342, 346, 350,
       360
    >>

\* Math.asin(x) * $math.DEGREES for 0 <= x <= 1
AsinDeg(x) == ArcSineTable[x + 1]

\* $math.fitToRange(value, minValue, maxValue): the limits are swapped when
\* given in the wrong order.
FitToRange(value, minValue, maxValue) ==
    LET lo == IF maxValue < minValue THEN maxValue ELSE minValue
        hi == IF maxValue < minValue THEN minValue ELSE maxValue
    IN  IF value < lo THEN lo ELSE IF value > hi THEN hi ELSE value

\* $math.min(a, b)
Min(a, b) == IF a < b THEN a ELSE b

\* An optional number: <<>> when the argument is not given.
Absent == <<>>
Given(n) == <<n>>

\* $type.isNumber(value)
IsNumber(o) == o # Absent

----------------------------------------------------------------------------
(* Path functions: commands *)

Pt(x, y) == [x |-> x, y |-> y]

\* moveTo(point): " M x,y "
MoveTo(point) == <<[cmd |-> "M", x |-> point.x, y |-> point.y]>>

\* lineTo(point): " L x,y "
LineTo(point) == <<[cmd |-> "L", x |-> point.x, y |-> point.y]>>

\* $math.getDistance(point, prevPoint) > 1
FartherThanOne(point, prevPoint) ==
    (point.x - prevPoint.x) * (point.x - prevPoint.x)
        + (point.y - prevPoint.y) * (point.y - prevPoint.y) > Unit * Unit

\* The point the loop of polyline compares the first point with.
PolylineStart == Pt(0, 0)

\* The loop of polyline from the i-th point on.
RECURSIVE PolylineFrom(_, _, _, _)
PolylineFrom(points, i, path, prevPoint) ==
    IF i > Len(points)
    THEN path
    ELSE IF FartherThanOne(points[i], prevPoint)
         THEN PolylineFrom(points, i + 1, path \o LineTo(points[i]), points[i])
         ELSE PolylineFrom(points, i + 1, path, prevPoint)

\* polyline(points)
Polyline(points) == PolylineFrom(points, 1, LineTo(points[1]), PolylineStart)

\* One " a rx,ry,0,0,l,ax,ay" command of arcTo.
RelativeArc(radius, radiusY, l, ax, ay) ==
    <<[cmd |-> "a", rx |-> radius, ry |-> radiusY, rot |-> 0, large |-> 0,
       sweep |-> l, x |-> ax, y |-> ay]>>

\* The sweep below which arcTo draws a line: arc < 0.5
ShortSweep == 2

\* The radius above which it does: radius > 3000
BigRadius == 3000 * Unit

\* arc < 0.5 && radius > 3000
DrawsLine(arc, radius) == arc < ShortSweep /\ radius > BigRadius

\* The loop of arcTo from segment i on (i counts from 0); pax and pay are
\* the previous relative end point.
RECURSIVE ArcToFrom(_, _, _, _, _, _, _, _, _)
ArcToFrom(startAngle, arc, radius, radiusY, segments, i, path, pax, pay) ==
    IF i >= segments
    THEN path
    ELSE LET endAngle == startAngle + RoundDiv(arc * (i + 1), segments)
             ax == RoundDiv(Cos(endAngle) * radius - Cos(startAngle) * radius, One)
                       - pax
             ay == RoundDiv(Sin(endAngle) * radiusY - Sin(startAngle) * radiusY, One)
                       - pay
         IN  ArcToFrom(startAngle, arc, radius, radiusY, segments, i + 1,
                       path \o RelativeArc(radius, radiusY,
                                           IF arc < 0 THEN 0 ELSE 1, ax, ay),
                       ax, ay)

\* arcTo with radiusY resolved to a number.
ArcToXY(startAngle, arc, radius, radiusY) ==
    IF arc = 0
    THEN <<>>
    ELSE IF DrawsLine(arc, radius)
    THEN LineTo(Pt(RoundDiv(Cos(startAngle + arc) * radius, One),
                   RoundDiv(Sin(startAngle + arc) * radiusY, One)))
    ELSE ArcToFrom(startAngle, arc, radius, radiusY,
                   CeilDiv(Abs(arc), 180 * Deg), 0, <<>>, 0, 0)

\* arcTo(startAngle, arc, radius, radiusY)
ArcTo(startAngle, arc, radius, radiusY) ==
    ArcToXY(startAngle, arc, radius,
            IF IsNumber(radiusY) THEN radiusY[1] ELSE radius)

\* arcToPoint(point, radius, radiusY, true)
ArcToPoint(point, radius, radiusY) ==
    IF radius = 0
    THEN <<>>
    ELSE <<[cmd |-> "A", rx |-> radius, ry |-> radiusY, rot |-> 0, large |-> 0,
            sweep |-> 1, x |-> point.x, y |-> point.y]>>

\* A limit of the whole width of the ring.
FitToWidth(value, radius, innerRadius) ==
    FitToRange(value, 0, radius - innerRadius)

\* $math.fitToRange(value, 0, (radius - innerRadius) / 2)
FitToHalfWidth(value, radius, innerRadius) ==
    FitToRange(value, 0, (radius - innerRadius) \div 2)

\* The part of arc() after the early returns and the exchange of the radii:
\* every quantity it derives before it builds the path.
ArcPlan(startAngle, sweep, radius, innerRadius, radiusY, cornerRadius, innerCornerRadius) ==
    LET arc == Min(sweep, 360 * Deg)
        full == arc = 360 * Deg
        endAngle == startAngle + arc
        crSin == Sin(RoundDiv(Min(arc, 45 * Deg), 2))
        ry == IF IsNumber(radiusY) THEN radiusY[1] ELSE radius
        cr0 == IF full \/ ~IsNumber(cornerRadius) THEN 0 ELSE cornerRadius[1]
        icr0 == IF full THEN 0
                ELSE IF IsNumber(innerCornerRadius) THEN innerCornerRadius[1]
                ELSE cr0
        iry0 == RoundDiv(ry * innerRadius, radius)
        crY0 == RoundDiv(ry * cr0, radius)
        icrY0 == RoundDiv(ry * icr0, radius)
        cr == FitToRange(FitToHalfWidth(cr0, radius, innerRadius),
                         0, RoundDiv(radius * crSin, One))
        crY == FitToRange(FitToHalfWidth(crY0, ry, iry0),
                          0, RoundDiv(ry * crSin, One))
        icr == FitToRange(FitToHalfWidth(icr0, radius, innerRadius),
                          0, RoundDiv(innerRadius * crSin, One))
        icrY == FitToRange(FitToHalfWidth(icrY0, ry, iry0),
                           0, RoundDiv(iry0 * crSin, One))
        crAngle == 2 * AsinDeg(RoundDiv(cr * One, 2 * radius))
        crAngleY == 2 * AsinDeg(RoundDiv(crY * One, 2 * ry))
        ir == IF innerRadius < icr THEN icr ELSE innerRadius
        iry == IF iry0 < icrY THEN icrY ELSE iry0
        \* asin(0 / 0) is no number: the angle becomes 0
        crInnerAngle == IF ir = 0 THEN 0
                        ELSE 2 * AsinDeg(RoundDiv(icr * One, 2 * ir))
        crInnerAngleY == IF iry = 0 THEN 0
                         ELSE 2 * AsinDeg(RoundDiv(icrY * One, 2 * iry))
        middleAngle == startAngle + RoundDiv(arc, 2)
        mPoint == Pt(RoundDiv(Cos(middleAngle) * ir, One),
                     RoundDiv(Sin(middleAngle) * iry, One))
        d1 == Pt(RoundDiv(Cos(endAngle - crInnerAngle) * ir, One),
                 RoundDiv(Sin(endAngle - crInnerAngleY) * iry, One))
    IN  [ startAngle |-> startAngle, arc |-> arc, endAngle |-> endAngle,
          radius |-> radius, radiusY |-> ry,
          innerRadius |-> ir, innerRadiusY |-> iry,
          cornerRadius |-> cr, cornerRadiusY |-> crY,
          crAngle |-> crAngle, crInnerAngle |-> crInnerAngle,
          \* "some magic math"
          innerCornerRadius |-> icr + RoundDiv(icr * Sin(crInnerAngle \div 2), One),
          innerCornerRadiusY |-> icrY + RoundDiv(icrY * Sin(crInnerAngleY \div 2), One),
          a0 |-> Pt(RoundDiv(Cos(startAngle) * (ir + icr), One),
                    RoundDiv(Sin(startAngle) * (iry + icrY), One)),
          b0 |-> Pt(RoundDiv(Cos(startAngle) * (radius - cr), One),
                    RoundDiv(Sin(startAngle) * (ry - crY), One)),
          c0 |-> Pt(RoundDiv(Cos(endAngle) * (radius - cr), One),
                    RoundDiv(Sin(endAngle) * (ry - crY), One)),
          d0 |-> Pt(RoundDiv(Cos(endAngle) * (ir + icr), One),
                    RoundDiv(Sin(endAngle) * (iry + icrY), One)),
          b1 |-> Pt(RoundDiv(Cos(startAngle + crAngle) * radius, One),
                    RoundDiv(Sin(startAngle + crAngleY) * ry, One)),
          d1 |-> IF 2 * crInnerAngle > endAngle - startAngle THEN mPoint ELSE d1,
          \* the sweeps handed to arcTo for the outer and the inner arc
          outerSweep |-> arc - 2 * crAngle,
          innerSweep |-> -(arc - 2 * crInnerAngle) ]

\* The path arc() builds from what it derived.
ArcPath(q) ==
    (IF q.arc = 360 * Deg
     THEN MoveTo(q.b0)
     ELSE MoveTo(q.a0) \o LineTo(q.b0)
              \o ArcToPoint(q.b1, q.cornerRadius, q.cornerRadiusY))
    \o ArcToXY(q.startAngle + q.crAngle, q.outerSweep, q.radius, q.radiusY)
    \o (IF q.innerRadius # 0
        THEN (IF q.arc = 360 * Deg /\ q.cornerRadius = 0
              THEN MoveTo(q.d0)
              ELSE ArcToPoint(q.c0, q.cornerRadius, q.cornerRadiusY)
                       \o LineTo(q.d0)
                       \o ArcToPoint(q.d1, q.innerCornerRadius, q.innerCornerRadiusY))
             \o ArcToXY(q.endAngle - q.crInnerAngle, q.innerSweep,
                        q.innerRadius, q.innerRadiusY)
             \o (IF q.arc < 360 * Deg \/ q.cornerRadius > 0
                 THEN ArcToPoint(q.a0, q.innerCornerRadius, q.innerCornerRadiusY)
                 ELSE <<>>)
             \o LineTo(q.a0)
        ELSE ArcToPoint(q.c0, q.cornerRadius, q.cornerRadiusY)
                 \o (IF q.arc < 360 * Deg THEN LineTo(q.a0) ELSE <<>>))

\* The radii of arc() put in order: radius is the larger one, and a given
\* radiusY is scaled with them.
ArcOrdered(startAngle, arc, radius, innerRadius, radiusY, cornerRadius, innerCornerRadius) ==
    IF radius < innerRadius
    THEN ArcPlan(startAngle, arc, innerRadius, radius,
                 IF IsNumber(radiusY)
                 THEN Given(RoundDiv(radiusY[1] * innerRadius, radius))
                 ELSE Absent,
                 cornerRadius, innerCornerRadius)
    ELSE ArcPlan(startAngle, arc, radius, innerRadius, radiusY, cornerRadius,
                 innerCornerRadius)

\* arc() returns "" without building anything.
ArcIsEmpty(arc, radius, innerRadius) ==
    \/ arc = 0
    \/ radius = 0 /\ (IF IsNumber(innerRadius) THEN innerRadius[1] ELSE 0) <= 0

\* arc(startAngle, arc, radius, innerRadius, radiusY, cornerRadius,
\* innerCornerRadius)
Arc(startAngle, arc, radius, innerRadius, radiusY, cornerRadius, innerCornerRadius) ==
    IF ArcIsEmpty(arc, radius, innerRadius)
    THEN <<>>
    ELSE ArcPath(ArcOrdered(startAngle, arc, radius,
                            IF IsNumber(innerRadius) THEN innerRadius[1] ELSE 0,
                            radiusY, cornerRadius, innerCornerRadius))

----------------------------------------------------------------------------
(* Calls of the path functions *)

MaxPoints == 3

\* No component is being configured.
ConfigIdle ==
    /\ root = Undef
    /\ nextUid = FirstFreeUid
    /\ pre = Undef
    /\ preUid = FirstFreeUid
    /\ lastCfg = NoCfg
    /\ again = FALSE
    /\ raised = <<>>
    /\ trace = <<>>
    /\ escaped = NoExc
    /\ applies = 0

PolylinePoints == { Pt(x, y) : x \in {0, 50, 10 * Unit}, y \in {0, 50} }

PointLists == UNION { [1..n -> PolylinePoints] : n \in 1..MaxPoints }

StartAngles == {0, 30 * Deg}

Sweeps ==
    { d * Deg : d \in {-540, -400, -90, 0, 30, 90, 200, 360, 400} } \cup {-1, 1}

OptionalRadiusY == {Absent, Given(6 * Unit)}

InitPath == ConfigIdle /\ PathIdle /\ ObjectIdle

\* path = polyline(points)
CallPolyline ==
    /\ call = NoCall
    /\ \E points \in PointLists :
          call' = [fn |-> "polyline", points |-> points, out |-> Polyline(points)]
    /\ UNCHANGED <<configVars, objectVars, nodes, added, supported>>

\* path = arcTo(startAngle, arc, radius, radiusY)
CallArcTo ==
    /\ call = NoCall
    /\ \E startAngle \in StartAngles, arc \in Sweeps,
          radius \in {10 * Unit, 3001 * Unit}, radiusY \in OptionalRadiusY :
          call' = [fn |-> "arcTo", startAngle |-> startAngle, arc |-> arc,
                   radius |-> radius, radiusY |-> radiusY,
                   out |-> ArcTo(startAngle, arc, radius, radiusY)]
    /\ UNCHANGED <<configVars, objectVars, nodes, added, supported>>

\* path = arc(startAngle, arc, radius, innerRadius, radiusY, cornerRadius,
\* innerCornerRadius), with radii that are not negative and a radiusY only
\* beside a radius that is not 0.
CallArc ==
    /\ call = NoCall
    /\ \E startAngle \in StartAngles, arc \in Sweeps,
          radius \in {0, 10 * Unit, 3001 * Unit},
          innerRadius \in {Absent, Given(0), Given(8 * Unit), Given(12 * Unit)},
          radiusY \in OptionalRadiusY,
          cornerRadius \in {Absent, Given(0), Given(Unit), Given(5 * Unit)},
          innerCornerRadius \in {Absent, Given(0), Given(5 * Unit)} :
          /\ (radius = 0 => radiusY = Absent)
          /\ call' = [fn |-> "arc", startAngle |-> startAngle, arc |-> arc,
                      radius |-> radius, innerRadius |-> innerRadius,
                      radiusY |-> radiusY, cornerRadius |-> cornerRadius,
                      innerCornerRadius |-> innerCornerRadius,
                      out |-> Arc(startAngle, arc, radius, innerRadius, radiusY,
                                  cornerRadius, innerCornerRadius)]
    /\ UNCHANGED <<configVars, objectVars, nodes, added, supported>>

NextPath == CallPolyline \/ CallArcTo \/ CallArc

SpecPath == InitPath /\ [][NextPath]_vars

----------------------------------------------------------------------------
(* pathToPoints and the ghost paper *)

MaxCalls == 3
MaxSamples == 4

\* The paths sampled: a straight line from the origin to (len, 0).
LineLengths == {2 * Unit, 4 * Unit, 6 * Unit, 10 * Unit}

StraightLine(len) == MoveTo(Pt(0, 0)) \o LineTo(Pt(len, 0))

\* svgPath.getTotalLength() of such a path
GetTotalLength(path) == path[2].x

\* svgPath.getPointAtLength(distance) of such a path
GetPointAtLength(path, distance) == Pt(distance, 0)

\* The loop of pathToPoints: the points at i / pointCount * length
SamplePoints(path, pointCount) ==
    [j \in 1..pointCount |->
        GetPointAtLength(path,
                         RoundDiv((j - 1) * GetTotalLength(path), pointCount))]

NoPoints == <<"undefined">>

\* pathToPoints(path, pointCount) on a host whose path nodes can (canMeasure)
\* or cannot measure lengths, with n path nodes on the ghost paper: the
\* value returned and the nodes left on the paper.
PathToPoints(path, pointCount, canMeasure, n) ==
    IF canMeasure
    THEN [out |-> SamplePoints(path, pointCount), nodes |-> n + 1]
    ELSE [out |-> NoPoints, nodes |-> (n + 1) - 1]

InitPaper ==
    /\ ConfigIdle
    /\ call = NoCall
    /\ nodes = 0
    /\ added = 0
    /\ supported \in BOOLEAN
    /\ ObjectIdle

\* points = pathToPoints(path, pointCount)
CallPathToPoints ==
    /\ added < MaxCalls
    /\ \E len \in LineLengths, pointCount \in 0..MaxSamples :
          /\ call' = [fn |-> "pathToPoints", path |-> StraightLine(len),
                      pointCount |-> pointCount,
                      out |-> PathToPoints(StraightLine(len), pointCount,
                                           supported, nodes).out]
          /\ nodes' = PathToPoints(StraightLine(len), pointCount,
                                   supported, nodes).nodes
    /\ added' = added + 1
    /\ UNCHANGED <<configVars, objectVars, supported>>

NextPaper == CallPathToPoints

SpecPaper == InitPaper /\ [][NextPaper]_vars

----------------------------------------------------------------------------
(* Timeouts, disposal and events of one BaseObjectEvents *)

MaxTimers == 3
MaxEvents == 2

\* $array.indexOf(this._disposers, target) and splice(index, 1)
RECURSIVE Without(_, _)
Without(seq, x) ==
    IF seq = <<>>
    THEN <<>>
    ELSE IF Head(seq) = x
         THEN Tail(seq)
         ELSE <<Head(seq)>> \o Without(Tail(seq), x)

Listed(seq, x) == \E k \in 1..Len(seq) : seq[k] = x

\* clearTimeout(id): a pending timer is cancelled, any other is left alone.
ClearTimeout(ts, id) ==
    IF ts[id].state = "pending"
    THEN [ts EXCEPT ![id].state = "cleared"]
    ELSE ts

\* system.map.setKey(key, this)
SetKey(map, key) == { e \in map : e.key # key } \cup {MapEntry(key, This)}

\* system.map.removeKey(key)
RemoveKey(map, key) == { e \in map : e.key # key }

\* system.getUniqueId()
GetUniqueId == "id-1"

\* The uid getter: the first read generates the uid and registers the object.
UidRead(o) ==
    IF o.uid = NoKey
    THEN [o EXCEPT !.uid = GetUniqueId, !.map = SetKey(@, GetUniqueId)]
    ELSE o

\* The object as dispose() sees and changes it.
ObjectState ==
    [disposed |-> disposed, disposers |-> disposers, timers |-> timers,
     calls |-> disposeCalls, log |-> disposeLog, flagged |-> flagged,
     map |-> systemMap, uid |-> ownUid]

RECURSIVE DisposeCall(_)
RECURSIVE DisposeEach(_, _)

\* The function a Disposer was made with.
DisposerFunction(x, o) ==
    CASE x.kind = "timeout" -> [o EXCEPT !.timers = ClearTimeout(@, x.id)]
      [] x.kind = "reentrant" -> DisposeCall(o)
      [] OTHER -> o

\* x.dispose(), called by dispose(): a Disposer runs its function the first
\* time only.
DisposerDispose(x, o) ==
    IF x \in o.flagged
    THEN [o EXCEPT !.log = Append(@, x)]
    ELSE DisposerFunction(x, [o EXCEPT !.log = Append(@, x),
                                       !.flagged = @ \cup {x}])

\* $array.each(a, function (x) { x.dispose(); })
DisposeEach(a, o) ==
    IF a = <<>>
    THEN o
    ELSE DisposeEach(Tail(a), DisposerDispose(Head(a), o))

\* this.clearCache(), which reads this.uid, and
\* system.map.removeKey(this._uid)
Unregister(o) == [UidRead(o) EXCEPT !.map = RemoveKey(@, UidRead(o).uid)]

\* A dispose() that neither tests _disposed nor forgets its disposers.
DisposeCallUnguarded(o) ==
    Unregister(DisposeEach(IF o.disposers.k = "null" THEN o.log
                           ELSE o.disposers.items,
                           [o EXCEPT !.calls = @ + 1,
                                     !.disposed = TRUE]))

\* dispose()
DisposeCall(o) ==
    IF ~o.disposed
    THEN Unregister(DisposeEach(o.disposers.items,
                                [o EXCEPT !.calls = @ + 1,
                                          !.disposed = TRUE,
                                          !.disposers = Null]))
    ELSE [o EXCEPT !.calls = @ + 1]

\* this._disposers after removeDispose(target)
RemoveDispose(list, isDisposed, target) ==
    IF ~isDisposed THEN Disposers(Without(list.items, target)) ELSE list

\* BaseObject.prototype.setTimeout(fn, delay). The host timer is started
\* first; the push onto _disposers throws a TypeError when the object is
\* already disposed (_disposers is null), the timer staying started.
SetTimeout ==
    /\ Len(timers) < MaxTimers
    /\ timers' = Append(timers, [state |-> "pending",
                                 registered |-> disposers.k # "null"])
    /\ disposers' =
          IF disposers.k = "null"
          THEN Null
          ELSE Disposers(Append(disposers.items,
                                TimeoutDisposer(Len(timers) + 1)))
    /\ UNCHANGED <<configVars, pathVars, disposed, ran, delivered, registryVars>>

\* The host runs the callback of a pending timer:
\* _this.removeDispose(disposer); fn();
FireTimeout ==
    \E id \in 1..Len(timers) :
        /\ timers[id].state = "pending"
        /\ timers' = [timers EXCEPT ![id].state = "fired"]
        /\ disposers' = RemoveDispose(disposers, disposed, TimeoutDisposer(id))
        /\ ran' = Append(ran, [id |-> id,
                               afterDispose |-> disposed,
                               listed |-> /\ ~disposed
                                          /\ Listed(disposers'.items,
                                                    TimeoutDisposer(id))])
        /\ flagged' = flagged \cup {TimeoutDisposer(id)}
        /\ UNCHANGED <<configVars, pathVars, disposed, delivered, disposeCalls,
                       disposeLog, systemMap, ownUid, ownId>>

MaxDisposeCalls == 3

\* BaseObject.prototype.dispose(), called by the code that owns the object
Dispose ==
    /\ disposeCalls < MaxDisposeCalls
    /\ disposed' = DisposeCall(ObjectState).disposed
    /\ disposers' = DisposeCall(ObjectState).disposers
    /\ timers' = DisposeCall(ObjectState).timers
    /\ disposeCalls' = DisposeCall(ObjectState).calls
    /\ disposeLog' = DisposeCall(ObjectState).log
    /\ flagged' = DisposeCall(ObjectState).flagged
    /\ systemMap' = DisposeCall(ObjectState).map
    /\ ownUid' = DisposeCall(ObjectState).uid
    /\ UNCHANGED <<configVars, pathVars, ran, delivered, ownId>>

\* this._disposers.push(new Disposer(function () { _this.dispose(); })),
\* as the classes built on BaseObject register their disposers
AddDisposer ==
    /\ disposers.k # "null"
    /\ ~Listed(disposers.items, ReentrantDisposer)
    /\ disposers' = Disposers(Append(disposers.items, ReentrantDisposer))
    /\ UNCHANGED <<configVars, pathVars, disposed, timers, ran, delivered,
                   registryVars>>

\* A read of obj.uid
GetUid ==
    /\ ownUid = NoKey
    /\ ownUid' = UidRead(ObjectState).uid
    /\ systemMap' = UidRead(ObjectState).map
    /\ UNCHANGED <<configVars, pathVars, disposed, disposers, timers, ran,
                   delivered, disposeCalls, disposeLog, flagged, ownId>>

UserIds == {"chart", "main"}

\* obj.id = value
SetId ==
    \E value \in UserIds :
        /\ value # ownId
        /\ systemMap' = SetKey(systemMap, value)
        /\ ownId' = value
        /\ UNCHANGED <<configVars, pathVars, disposed, disposers, timers, ran,
                       delivered, disposeCalls, disposeLog, flagged, ownUid>>

EventTypes == {"hit", "over"}

\* The data objects handed to dispatch: none, or an object of some keys.
NoData == [k |-> "undefined"]

DataOf(fields) == [k |-> "object", fields |-> fields]

EventData ==
    { NoData,
      DataOf(<<>>),
      DataOf("value" :> "1"),
      DataOf("target" :> "other" @@ "type" :> "old") }

\* this.events.isEnabled(eventType): the dispatcher is one of _disposers
IsEnabled(eventType) == ~disposed

\* { type: eventType, target: this }
FreshEvent(eventType) == DataOf("type" :> eventType @@ "target" :> This)

\* data.type = eventType; data.target = data.target || this;
Populated(eventType, data) ==
    DataOf(("type" :> eventType)
           @@ ("target" :> IF "target" \in DOMAIN data.fields
                           THEN data.fields["target"]
                           ELSE This)
           @@ data.fields)

\* The object handed to this.events.dispatch by dispatch(eventType, data)
DispatchPayload(eventType, data) ==
    IF data # NoData
    THEN FreshEvent(eventType)
    ELSE FreshEvent(eventType)

\* The object handed to this.events.dispatchImmediately
DispatchImmediatelyPayload(eventType, data) ==
    IF data # NoData
    THEN Populated(eventType, data)
    ELSE FreshEvent(eventType)

Delivery(via, eventType, data, payload) ==
    [via |-> via, eventType |-> eventType, data |-> data, payload |-> payload]

\* BaseObjectEvents.prototype.dispatch(eventType, data)
CallDispatch ==
    /\ Len(delivered) < MaxEvents
    /\ \E eventType \in EventTypes, data \in EventData :
          /\ IsEnabled(eventType)
          /\ delivered' =
                 Append(delivered,
                        Delivery("dispatch", eventType, data,
                                 DispatchPayload(eventType, data)))
    /\ UNCHANGED <<configVars, pathVars, disposed, disposers, timers, ran,
                   registryVars>>

\* BaseObjectEvents.prototype.dispatchImmediately(eventType, data)
CallDispatchImmediately ==
    /\ Len(delivered) < MaxEvents
    /\ \E eventType \in EventTypes, data \in EventData :
          /\ IsEnabled(eventType)
          /\ delivered' =
                 Append(delivered,
                        Delivery("dispatchImmediately", eventType, data,
                                 DispatchImmediatelyPayload(eventType, data)))
    /\ UNCHANGED <<configVars, pathVars, disposed, disposers, timers, ran,
                   registryVars>>

InitObject == ConfigIdle /\ PathIdle /\ ObjectIdle

NextObject ==
    \/ SetTimeout
    \/ FireTimeout
    \/ Dispose
    \/ CallDispatch
    \/ CallDispatchImmediately

SpecObject == InitObject /\ [][NextObject]_vars

\* Disposal and the system-wide map
NextDispose ==
    \/ SetTimeout
    \/ FireTimeout
    \/ AddDisposer
    \/ Dispose
    \/ GetUid
    \/ SetId

SpecDispose == InitObject /\ [][NextDispose]_vars

----------------------------------------------------------------------------
(* What the claims speak of *)

CollectionKeys == {"series", "list"}

\* The latest config has the key.
CfgHas(key) == lastCfg.k = "obj" /\ HasKey(lastCfg.kv, key)

\* The value the latest config gives the key.
CfgValue(key) == GetProp(lastCfg, key)

\* The key was applied to the root during the latest assignment.
Applied(key) == \E i \in 1..Len(trace) : trace[i] = <<RootUid, key>>

\* The latest config gives an array to a collection of the root.
ArrayFor(key) ==
    /\ CfgHas(key)
    /\ IsArray(CfgValue(key))
    /\ pre.props[key].k \in {"list", "listT"}

IsPlainObject(v) == v.k = "obj"

TypeOf(v) == GetProp(v, "type")

UnknownTyped(v) ==
    /\ IsPlainObject(v)
    /\ TypeOf(v).k = "str"
    /\ TypeOf(v).s \notin {ItemName, LeafName}

KnownTyped(v) ==
    /\ IsPlainObject(v)
    /\ TypeOf(v).k = "str"
    /\ TypeOf(v).s \in {ItemName, LeafName}

ClassOf(v) == IF TypeOf(v).s = ItemName THEN "Item" ELSE "Leaf"

----------------------------------------------------------------------------
(* C1: applying the same sequence of config entries twice to a List or a   *)
(* ListTemplate is idempotent: the second application creates no entries   *)
(* and leaves every entry with the values it had after the first.          *)
C1_SecondApplicationIdempotent ==
    \A key \in CollectionKeys :
        (again /\ ArrayFor(key)) =>
            root.props[key].items = pre.props[key].items

(* C2: applying n > m entries to a collection of length m leaves n         *)
(* entries: the first m are the elements it had, each updated in place     *)
(* from the entry at its position, and n - m new entries are appended in   *)
(* entry order.                                                            *)
UpdatedFrom(old, new, entry, kind) ==
    IF IsPlainObject(entry)
    THEN IF IsBaseObject(old)
         THEN /\ IsBaseObject(new)
              /\ new.oid = old.oid
              /\ (HasKey(entry.kv, "v") => new.props["v"] = GetProp(entry, "v"))
         ELSE IF IsPlainObject(old)
         THEN /\ IsPlainObject(new)
              /\ \A i \in 1..Len(entry.kv) :
                    GetProp(new, entry.kv[i].key) = entry.kv[i].val
         ELSE TRUE
    ELSE IF kind = "list" THEN new = entry ELSE new = old

AppendedFrom(new, entry, kind, firstNew) ==
    IF IsBaseObject(new)
    THEN new.oid >= firstNew
    ELSE kind = "list" /\ new = entry

C2_AppendsAndUpdates ==
    \A key \in CollectionKeys :
        ( /\ ArrayFor(key)
          /\ Len(lastCfg.kv) = 1
          /\ raised = <<>>
          /\ Len(pre.props[key].items) < Len(CfgValue(key).a) ) =>
            LET old == pre.props[key].items
                new == root.props[key].items
                a == CfgValue(key).a
                kind == pre.props[key].k
            IN  /\ Len(new) = Len(a)
                /\ \A i \in 1..Len(old) : UpdatedFrom(old[i], new[i], a[i], kind)
                /\ \A i \in (Len(old) + 1)..Len(a) :
                      AppendedFrom(new[i], a[i], kind, preUid)

(* C3: wherever a config node declares a type that is not registered (as   *)
(* the value of a property, as an entry of a List or as an entry of a      *)
(* ListTemplate), applying it fails with an error naming that type.        *)
UnknownTypeApplied ==
    \/ \E key \in DOMAIN pre.props \ CollectionKeys :
          Applied(key) /\ UnknownTyped(CfgValue(key))
    \/ \E key \in CollectionKeys :
          /\ Applied(key)
          /\ ArrayFor(key)
          /\ UnknownTyped(CfgValue(key).a[1])

C3_UnknownTypeFails ==
    UnknownTypeApplied =>
        \E i \in 1..Len(raised) :
            /\ raised[i].cause.name = "Error"
            /\ raised[i].cause.type = Str(NopeName)

(* C4: when a config value is an object whose `type` names a registered    *)
(* class, the apply constructs a fresh instance of that class and the      *)
(* target property holds that instance when the apply has finished.        *)
TypedPropertyApplied(key) ==
    /\ key \notin CollectionKeys
    /\ Applied(key)
    /\ KnownTyped(CfgValue(key))

HoldsFreshInstance(key) ==
    /\ IsBaseObject(root.props[key])
    /\ root.props[key].cls = ClassOf(CfgValue(key))
    /\ root.props[key].oid >= preUid
    /\ root.props[key].oid < nextUid

C4_TypedPropertyHoldsNewInstance ==
    \A key \in DOMAIN pre.props :
        TypedPropertyApplied(key) => HoldsFreshInstance(key)

(* C4, amended: the same for every key that is not an as-is field; an      *)
(* as-is field ("locale") ends holding the config object itself.           *)
AsIsFields == {"locale"}

C4_TypedPropertyHoldsNewInstanceUnlessAsIs ==
    \A key \in DOMAIN pre.props :
        /\ (TypedPropertyApplied(key) /\ key \notin AsIsFields) =>
               HoldsFreshInstance(key)
        /\ (TypedPropertyApplied(key) /\ key \in AsIsFields) =>
               root.props[key] = CfgValue(key)

C4_Witness ==
    /\ TypedPropertyApplied("child")
    /\ pre.props["child"].cls = "Item"
    /\ root.props["child"].cls = "Leaf"
    /\ root.props["child"].props["v"] = Num(1)
    /\ TypedPropertyApplied("locale")

(* C5: an exception raised while processing a config assigned through a    *)
(* component's `config` setter never reaches the assigning code; the       *)
(* setter reports it through the critical-error hook of that component,    *)
(* with the exception itself as the cause.                                 *)
StartState == [uid |-> preUid, raised |-> <<>>, trace |-> <<>>]

\* The root's series is given an array with an entry naming an unregistered
\* type: getConfigEntryType throws in the root's processConfig.
RootThrows ==
    /\ Applied("series")
    /\ ArrayFor("series")
    /\ \E i \in 1..Len(CfgValue("series").a) : UnknownTyped(CfgValue("series").a[i])

\* The root's child is given a config whose `kids` names an unregistered
\* type: getConfigEntryType throws in the child's processConfig.
ChildThrows ==
    /\ Applied("child")
    /\ CfgValue("child") = BadKids

Reported(oid, e) ==
    \E i \in 1..Len(raised) : raised[i] = [oid |-> oid, cause |-> e]

C5_SetterCatchesAndReports ==
    /\ escaped = NoExc
    /\ applies >= 1 =>
          /\ ProcessConfig(pre, lastCfg, StartState).exc # NoExc =>
                /\ raised # <<>>
                /\ raised[Len(raised)] =
                      [oid |-> RootUid,
                       cause |-> ProcessConfig(pre, lastCfg, StartState).exc]
          /\ RootThrows =>
                \E at \in 0..Len(trace) :
                    Reported(RootUid, [InvalidType(Str(NopeName)) EXCEPT !.at = at])
          /\ ChildThrows =>
                \E at \in 0..Len(trace) :
                    Reported(pre.props["child"].oid,
                             [InvalidType(Str(NopeName)) EXCEPT !.at = at])

C5_Witness ==
    /\ RootThrows
    /\ ChildThrows
    /\ Len(raised) >= 2
    /\ escaped = NoExc

NoKeyAfter(report) ==
    \A j \in 1..Len(trace) :
        j > report.cause.at => trace[j][1] # report.oid

RootReport == \E i \in 1..Len(raised) : raised[i].oid = RootUid

\* The position of the first entry of the array a naming an unregistered
\* type.
FirstUnknown(a) ==
    CHOOSE i \in 1..Len(a) :
        UnknownTyped(a[i]) /\ \A j \in 1..(i - 1) : ~UnknownTyped(a[j])

\* The keys of the latest config in the order of application: "language"
\* first.
AppliedOrder ==
    SelectSeq(Keys(lastCfg), LAMBDA k : k = "language")
        \o SelectSeq(Keys(lastCfg), LAMBDA k : k # "language")

\* The latest config cut off right before the failing entry of `series`.
CutBeforeFailure ==
    LET order == AppliedOrder
        f == CHOOSE i \in 1..Len(order) : order[i] = "series"
        a == CfgValue("series").a
    IN  Obj([i \in 1..f |->
               IF i < f
               THEN KV(order[i], CfgValue(order[i]))
               ELSE KV("series", Arr(SubSeq(a, 1, FirstUnknown(a) - 1)))])

C7_NoRollback ==
    RootThrows =>
        /\ root = ConfigSetter(pre, CutBeforeFailure, StartState).v
        /\ nextUid = ConfigSetter(pre, CutBeforeFailure, StartState).st.uid

\* A key applied and an entry appended before the failure are still there.
C7_Witness ==
    /\ RootThrows
    /\ Applied("p")
    /\ pre.props["p"] = Undef
    /\ root.props["p"] = Num(1)
    /\ Len(root.props["series"].items) = Len(pre.props["series"].items) + 1
    /\ Len(CfgValue("series").a) = 2

(* C8: with the default ordering, the key "language" of a config node is   *)
(* applied before every other key of the node, and the other keys are      *)
(* applied in their insertion order.                                       *)
RootTrace == SelectSeq(trace, LAMBDA e : e[1] = RootUid)

RootKeys == [i \in 1..Len(RootTrace) |-> RootTrace[i][2]]

PropertyKeys == SelectSeq(Keys(lastCfg), LAMBDA k : k \in DOMAIN pre.props)

LanguageFirst(keys) ==
    SelectSeq(keys, LAMBDA k : k = "language")
        \o SelectSeq(keys, LAMBDA k : k # "language")

IsPrefix(s, t) == Len(s) <= Len(t) /\ s = SubSeq(t, 1, Len(s))

C8_LanguageFirstThenInsertionOrder ==
    (applies >= 1 /\ IsPlainObject(lastCfg)) =>
        /\ IsPrefix(RootKeys, LanguageFirst(PropertyKeys))
        /\ ~RootReport => RootKeys = LanguageFirst(PropertyKeys)

C8_Witness ==
    /\ applies >= 1
    /\ Len(Keys(lastCfg)) = 3
    /\ Keys(lastCfg)[3] = "language"
    /\ Len(RootKeys) = 3
    /\ RootKeys[1] = "language"
    /\ RootKeys[2] = Keys(lastCfg)[1]
    /\ RootKeys[3] = Keys(lastCfg)[2]

(* C9: a config key that is not a property of the target is skipped: it    *)
(* raises no error, changes no property, creates no instance even if its   *)
(* value carries a `type`, and the remaining keys are applied as they      *)
(* would be without it.                                                    *)
NotProperty(key) == key \notin DOMAIN pre.props

HasForeignKey ==
    /\ applies >= 1
    /\ IsPlainObject(lastCfg)
    /\ \E i \in 1..Len(lastCfg.kv) : NotProperty(lastCfg.kv[i].key)

\* The latest config without the keys that are no property of the root.
WithoutForeignKeys ==
    Obj(SelectSeq(lastCfg.kv, LAMBDA e : ~NotProperty(e.key)))

C9_ForeignKeySkipped ==
    HasForeignKey =>
        /\ DOMAIN root.props = DOMAIN pre.props
        /\ \A i \in 1..Len(trace) :
              trace[i][1] = RootUid => ~NotProperty(trace[i][2])
        /\ root = ConfigSetter(pre, WithoutForeignKeys, StartState).v
        /\ nextUid = ConfigSetter(pre, WithoutForeignKeys, StartState).st.uid
        /\ raised = ConfigSetter(pre, WithoutForeignKeys, StartState).st.raised
        /\ trace = ConfigSetter(pre, WithoutForeignKeys, StartState).st.trace
        /\ Len(lastCfg.kv) = 1 => (root = pre /\ nextUid = preUid /\ raised = <<>>)

\* A typed foreign key in the middle of a config whose other keys apply.
C9_Witness ==
    /\ HasForeignKey
    /\ Len(lastCfg.kv) = 3
    /\ lastCfg.kv[2] = KV("zzz", TypedV(ItemName, 1))
    /\ Len(RootKeys) = 2
    /\ root.props["p"] = Num(1)
    /\ raised = <<>>

(* C10: in the fallback assignment a string of digits, dots and minus      *)
(* signs followed by "%" is stored as a percentage value, a string that is *)
(* "#" followed by hex digits is stored as a color value, and every other  *)
(* value is stored unchanged.                                              *)
StringAssigned ==
    /\ applies >= 1
    /\ IsPlainObject(lastCfg)
    /\ IsString(CfgValue("p"))

\* The property held nothing that another branch of processConfig takes.
FallbackTaken ==
    /\ StringAssigned
    /\ Applied("p")
    /\ pre.props["p"].k \in {"undef", "num", "str", "obj", "arr"}

TheString == CfgValue("p").s

IsPercentText(s) ==
    /\ Len(s) >= 2
    /\ s[Len(s)] = "%"
    /\ \A i \in 1..(Len(s) - 1) :
          s[i] \in {"0", "1", "2", "3", "4", "5", "6", "7", "8", "9", ".", "-"}

\* "#" followed by at least `least` hex digits, of either case.
IsHexText(s, least) ==
    /\ Len(s) >= 1 + least
    /\ s[1] = "#"
    /\ \A i \in 2..Len(s) :
          s[i] \in {"0", "1", "2", "3", "4", "5", "6", "7", "8", "9",
                    "a", "b", "c", "d", "e", "f", "A", "B", "C", "D", "E", "F"}

StoredFor(s, least) ==
    IF IsPercentText(s)
    THEN [k |-> "percent", num |-> SubSeq(s, 1, Len(s) - 1)]
    ELSE IF IsHexText(s, least)
    THEN [k |-> "color", hex |-> s]
    ELSE Str(s)

C10_CoercesPercentAndHex ==
    FallbackTaken => root.props["p"] = StoredFor(TheString, 1)

(* C10, amended: the color pattern asks for "#" followed by at least three *)
(* hex digits (of either case); "#" with one or two is stored unchanged.   *)
C10_CoercesPercentAndHexOfThree ==
    FallbackTaken => root.props["p"] = StoredFor(TheString, 3)

C10_Witness ==
    /\ FallbackTaken
    /\ TheString = <<"#", "a", "F", "1">>
    /\ pre.props["p"] = O1("a", Num(1))
    /\ root.props["p"].k = "color"

(* C11: when the current value of the target property is a Color or a      *)
(* Percent, the raw config value is assigned exactly as given, with no     *)
(* coercion: "50%" or "#fff" is stored as that string.                     *)
TypedValueKeys == {"fill", "width"}

HeldTypedValue(key) ==
    /\ Applied(key)
    /\ pre.props[key].k \in {"color", "percent"}

C11_TypedValueGetsRawValue ==
    \A key \in TypedValueKeys :
        HeldTypedValue(key) => root.props[key] = CfgValue(key)

(* C11, amended: the same unless the config value is an object whose       *)
(* `type` names a registered class: then the property holds a new instance *)
(* of that class, configured from the value.                               *)
C11_TypedValueGetsRawValueUnlessTyped ==
    \A key \in TypedValueKeys :
        HeldTypedValue(key) =>
            IF KnownTyped(CfgValue(key))
            THEN /\ IsBaseObject(root.props[key])
                 /\ root.props[key].cls = ClassOf(CfgValue(key))
                 /\ root.props[key].oid >= preUid
            ELSE root.props[key] = CfgValue(key)

\* A Percent that was given a color string holds the string.
C11_Witness ==
    /\ HeldTypedValue("width")
    /\ pre.props["width"].k = "percent"
    /\ CfgValue("width") = Str(<<"#", "f", "f", "f">>)
    /\ root.props["width"] = Str(<<"#", "f", "f", "f">>)

HandlerDestination ==
    /\ pre.props["locale"].k \in {"adapter", "events"}
    /\ ~KnownTyped(CfgValue("locale"))

RECURSIVE LinesToFarPoints(_, _, _, _)
LinesToFarPoints(points, i, path, last) ==
    IF i > Len(points)
    THEN path
    ELSE IF (points[i].x - last.x) * (points[i].x - last.x)
              + (points[i].y - last.y) * (points[i].y - last.y) > Unit * Unit
         THEN LinesToFarPoints(points, i + 1,
                               Append(path, [cmd |-> "L", x |-> points[i].x,
                                             y |-> points[i].y]),
                               points[i])
         ELSE LinesToFarPoints(points, i + 1, path, last)

C13_PolylineMovesThenSkipsNearPoints ==
    call.fn = "polyline" =>
        /\ call.out[1] = [cmd |-> "M", x |-> call.points[1].x,
                          y |-> call.points[1].y]
        /\ call.out =
              LinesToFarPoints(call.points, 2, <<call.out[1]>>, call.points[1])
        /\ \A k \in 2..Len(call.out) :
              Pt(call.out[k].x, call.out[k].y)
                  # Pt(call.out[k - 1].x, call.out[k - 1].y)

(* C14: arcTo returns the empty string for sweep 0 and otherwise emits     *)
(* exactly ceil(|arcSweep| / 180) relative-arc commands, for positive and  *)
(* negative sweeps; a single line replaces them only for a sweep below 0.5 *)
(* degrees in magnitude with a radius above 3000.                          *)
IsShortAndBig(arc, radius) ==
    /\ arc < 2 /\ arc > -2
    /\ radius > 3000 * Unit

C14_ArcToSegments ==
    call.fn = "arcTo" =>
        IF call.arc = 0
        THEN call.out = <<>>
        ELSE IF IsShortAndBig(call.arc, call.radius)
        THEN Len(call.out) = 1 /\ call.out[1].cmd = "L"
        ELSE /\ Len(call.out) = CeilDiv(Abs(call.arc), 180 * Deg)
             /\ \A k \in 1..Len(call.out) : call.out[k].cmd = "a"

(* C15: every corner radius that arc() writes into a corner-arc command    *)
(* (outer and inner, horizontal component) is at least 0 and at most       *)
(* (outerRadius - innerRadius) / 2, the radii put in order.                *)
ArcBuilt == call.fn = "arc" /\ call.out # <<>>

InnerOf(c) == IF IsNumber(c.innerRadius) THEN c.innerRadius[1] ELSE 0

\* Half the width of the ring, the larger radius taken as the outer one.
HalfWidth(c) == Abs(c.radius - InnerOf(c)) \div 2

CornerArcs(path) == { k \in 1..Len(path) : path[k].cmd = "A" }

PlanOfCall ==
    ArcOrdered(call.startAngle, call.arc, call.radius, InnerOf(call),
               call.radiusY, call.cornerRadius, call.innerCornerRadius)

C16_SweepWithin360 ==
    ArcBuilt =>
        /\ Abs(PlanOfCall.outerSweep) <= 360 * Deg
        /\ Abs(PlanOfCall.innerSweep) <= 360 * Deg

(* C17: after every call of pathToPoints, on the supported path and on the *)
(* unsupported one, the path node it added to the ghost paper has been     *)
(* removed: the number of such nodes stays what it was.                    *)
C17_NodeRemoved == nodes = 0

(* C18: a setTimeout callback runs at most once and never after dispose;   *)
(* dispose clears every timeout that has not fired yet; and a firing       *)
(* timeout is taken off the disposer list before its callback runs.        *)
RunsOf(id) == Cardinality({ k \in 1..Len(ran) : ran[k].id = id })

C18_TimeoutOnceAndNotAfterDispose ==
    /\ \A id \in 1..Len(timers) : RunsOf(id) <= 1
    /\ \A k \in 1..Len(ran) : ~ran[k].afterDispose
    /\ \A k \in 1..Len(ran) : ~ran[k].listed
    /\ disposed =>
          \A id \in 1..Len(timers) :
              timers[id].registered => timers[id].state # "pending"

(* C19: dispatch(eventType, data) hands the event dispatcher the same      *)
(* payload as dispatchImmediately does: the caller's data object with its  *)
(* type and target filled in.                                              *)
C19_DispatchDeliversCallersData ==
    \A k \in 1..Len(delivered) :
        delivered[k].via = "dispatch" =>
            delivered[k].payload =
                DispatchImmediatelyPayload(delivered[k].eventType,
                                           delivered[k].data)

(* C20: in a List (no template), an object entry at a position that holds  *)
(* no element is constructed and has its config merged in the same apply:  *)
(* the component created for it carries the entry's values once that first *)
(* application has finished.                                               *)
C20_CreatedListEntryCarriesValues ==
    \A key \in CollectionKeys :
        ( /\ ArrayFor(key)
          /\ pre.props[key].k = "list"
          /\ raised = <<>> ) =>
            \A i \in (Len(pre.props[key].items) + 1)..Len(CfgValue(key).a) :
                ( /\ KnownTyped(CfgValue(key).a[i])
                  /\ HasKey(CfgValue(key).a[i].kv, "v") ) =>
                    /\ i <= Len(root.props[key].items)
                    /\ IsBaseObject(root.props[key].items[i])
                    /\ root.props[key].items[i].props["v"]
                           = GetProp(CfgValue(key).a[i], "v")

(* C21: for a dictionary with template and an object config value, after  *)
(* the apply every config key is a key of the dictionary: a key that had   *)
(* an entry keeps that entry, updated in place; a key without one gets one *)
(* newly created entry; no other key is added or removed; and the entry    *)
(* reflects the config value, be the entry a component, a plain object or  *)
(* a primitive.                                                            *)
KeySet(kv) == { kv[i].key : i \in 1..Len(kv) }

ValueAt(kv, key) == kv[KeyIndex(kv, key)].val

\* The entry now reflects the config value; was is the entry the key had.
Reflects(was, now, value) ==
    IF IsBaseObject(was)
    THEN /\ IsBaseObject(now)
         /\ now.oid = was.oid
         /\ (IsPlainObject(value) /\ HasKey(value.kv, "v")) =>
                now.props["v"] = GetProp(value, "v")
    ELSE IF IsPlainObject(was) /\ IsPlainObject(value)
    THEN /\ IsPlainObject(now)
         /\ \A i \in 1..Len(value.kv) :
               GetProp(now, value.kv[i].key) = value.kv[i].val
    ELSE now = value

DictApplied ==
    /\ applies = 1
    /\ CfgHas("dict")
    /\ IsPlainObject(CfgValue("dict"))
    /\ pre.props["dict"].k = "dictT"

C21_EveryKeyReusedOrCreated ==
    DictApplied =>
        LET old == pre.props["dict"].kv
            new == root.props["dict"].kv
            cfg == CfgValue("dict").kv
        IN  /\ KeySet(new) = KeySet(old) \cup KeySet(cfg)
            /\ Len(new) = Cardinality(KeySet(new))
            /\ \A key \in KeySet(old) \ KeySet(cfg) :
                  ValueAt(new, key) = ValueAt(old, key)
            /\ \A key \in KeySet(cfg) \cap KeySet(old) :
                  Reflects(ValueAt(old, key), ValueAt(new, key),
                           ValueAt(cfg, key))
            /\ \A key \in KeySet(cfg) \ KeySet(old) :
                  /\ IsBaseObject(ValueAt(new, key))
                  /\ ValueAt(new, key).oid >= preUid
                  /\ (IsPlainObject(ValueAt(cfg, key))
                        /\ HasKey(ValueAt(cfg, key).kv, "v")) =>
                        ValueAt(new, key).props["v"]
                            = GetProp(ValueAt(cfg, key), "v")

(* C22: each relative-arc command of arcTo has as its offset the end point *)
(* of its segment minus the end point of the segment before it, so the     *)
(* offsets of all segments sum to the final point of the arc minus its     *)
(* start point, for every number of segments, three or more included.      *)
ArcsOnly ==
    /\ call.fn = "arcTo"
    /\ call.out # <<>>
    /\ \A k \in 1..Len(call.out) : call.out[k].cmd = "a"

RadiusYOf(c) == IF IsNumber(c.radiusY) THEN c.radiusY[1] ELSE c.radius

\* The end point of segment k of n, from the start point of the arc; the
\* segment 0 ends at the start point.
SegmentEnd(c, k, n) ==
    LET endAngle == c.startAngle + RoundDiv(c.arc * k, n)
    IN  Pt(RoundDiv(Cos(endAngle) * c.radius - Cos(c.startAngle) * c.radius,
                    One),
           RoundDiv(Sin(endAngle) * RadiusYOf(c) - Sin(c.startAngle) * RadiusYOf(c),
                    One))

RECURSIVE SumOfOffsets(_, _)
SumOfOffsets(path, k) ==
    IF k = 0
    THEN Pt(0, 0)
    ELSE Pt(SumOfOffsets(path, k - 1).x + path[k].x,
            SumOfOffsets(path, k - 1).y + path[k].y)

C22_OffsetsFromPreviousEnd ==
    ArcsOnly =>
        LET n == Len(call.out)
        IN  /\ \A k \in 1..n :
                  /\ call.out[k].x = SegmentEnd(call, k, n).x
                                       - SegmentEnd(call, k - 1, n).x
                  /\ call.out[k].y = SegmentEnd(call, k, n).y
                                       - SegmentEnd(call, k - 1, n).y
            /\ SumOfOffsets(call.out, n) = SegmentEnd(call, n, n)

(* C23: dispose() is idempotent and safe against re-entry: over any number *)
(* of dispose() calls on one object, a call made by one of its own         *)
(* disposers included, each disposer registered when the first call is     *)
(* made is disposed exactly once, and every later call changes no state.   *)
Times(log, x) == Cardinality({ k \in 1..Len(log) : log[k] = x })

DisposeCalled == disposeCalls' # disposeCalls

C23_DisposeOnceThenNoChange ==
    [][ DisposeCalled =>
          IF disposed
          THEN UNCHANGED <<disposed, disposers, timers, ran, delivered,
                           disposeLog, flagged, systemMap, ownUid, ownId>>
          ELSE /\ disposed'
               /\ Len(disposeLog') = Len(disposers.items)
               /\ \A k \in 1..Len(disposers.items) :
                     Times(disposeLog', disposers.items[k]) = 1 ]_vars

\* The object held its event dispatcher, a timeout and a disposer that calls
\* dispose(); it was disposed, by that the disposer called dispose() again,
\* and dispose() was called once more afterwards.
C23_Witness ==
    /\ disposed
    /\ disposeCalls = 3
    /\ Times(disposeLog, ReentrantDisposer) = 1
    /\ Times(disposeLog, EventsDisposer) = 1
    /\ \E id \in 1..Len(timers) :
          /\ Times(disposeLog, TimeoutDisposer(id)) = 1
          /\ timers[id].state = "cleared"

(* C24: once an object is disposed, system.map holds no key that maps to   *)
(* it: its generated uid and any id set through the `id` setter have been  *)
(* removed.                                                                *)
C24_NoKeyOfDisposedObject ==
    disposed => \A e \in systemMap : e.obj # This

============================================================================
